---- MODULE Spec2Model ----
(***************************************************************************)
(* Awty Football: the game event ledger (GameModuleExpanded.tsx), the game *)
(* store routes (backend/src/routes/games.ts) and the per-player stats     *)
(* fold (OverallStatsTable.tsx).                                           *)
(*                                                                         *)
(* Three specifications share the module:                                  *)
(*   Spec       the ledger of one game with its debounced autosave         *)
(*   StoreSpec  the game store: create / update / delete / get             *)
(*   StatsSpec  the per-player stats fold over a list of games             *)
(***************************************************************************)
EXTENDS Integers, Sequences, FiniteSets, TLC

VARIABLES
    \* ---- ledger (GameModuleExpanded component state) ----
    playerTeams,        \* Record<playerId, 'color'|'white'>; NONE = no key
    leftPlayers,        \* set of player ids flagged as left
    goals,              \* list of {scorer, assister, timestamp, team}
    teamChanges,        \* list of {player, timestamp, team, type, previousTeam, newTeam}
    goalScorer,         \* player of the open assister modal, or NULL
    editingGoalIndex,   \* index of the goal being edited, or 0
    editingScorer,      \* scorer chosen in the edit flow, or NULL
    goalToDelete,       \* index of the goal awaiting delete confirmation, or 0
    editingTeamChangeIndex, \* index of the team change whose time is edited, or 0
    teamChangeToDelete, \* index of the team change awaiting delete confirmation, or 0
    loading,            \* the component's loading flag
    error,              \* the component's error flag
    now,                \* wall clock, milliseconds
    timers,             \* pending autosave timeouts (with the closure they captured)
    inflight,           \* PUT requests issued and not yet answered
    server,             \* the stored row of the game being edited
    nwrites,            \* number of PUT requests issued so far
    lastSched,          \* time at which the autosave effect last scheduled a timer
    saves,              \* writes issued since the effect last scheduled a timer
    lastOp,             \* the handler that ran in the last step
    lastSaved,          \* body of the most recent PUT request, if any
    prev,               \* the ledger as it was before the last step
    swapScenario,       \* progress of a swap / swap-back pair of one player
    writeFailed,        \* whether a PUT request of the session was rejected
    pristine,           \* whether no handler has changed the ledger so far
    \* ---- game store ----
    store,              \* id -> row; Absent when no row has that id
    nextId,             \* the id the next created row gets
    lastReq,            \* the request served last, with its response
    prevStore,          \* the rows before the last request was served
    \* ---- stats fold ----
    players,            \* the players prop
    games,              \* the games prop
    playerStats,        \* the memoised result of the fold
    partnerStats,       \* the memoised rows of the partners table
    sortColumn,         \* the column the stats table is sorted by
    sortDirection       \* 'asc' or 'desc'

ledgerVars == <<playerTeams, leftPlayers, goals, teamChanges, goalScorer,
                editingGoalIndex, editingScorer, goalToDelete,
                editingTeamChangeIndex, teamChangeToDelete, loading, error,
                now, timers, inflight, server, nwrites, lastSched, saves, lastOp,
                lastSaved, prev, swapScenario, writeFailed,
                pristine>>
storeVars  == <<store, nextId, lastReq, prevStore>>
statsVars  == <<players, games, playerStats, partnerStats, sortColumn,
               sortDirection>>
vars == <<ledgerVars, storeVars, statsVars>>

NULL == "null"
NONE == "none"
Teams == {"color", "white"}

\* ---- bounds ----
MaxTime == 1750
MaxGoals == 2
MaxChanges == 2
MaxWrites == 2
MaxIds == 2
MaxStatGames == 2
MaxStatGoals == 2
MaxFormGames == 6

\* ---- program constants ----
Debounce == 500
FormLength == 5

\* the players of the player store, and the id of a player deleted from it
PlayerIds == {"p1", "p2"}
DeletedId == "px"
AllIds == PlayerIds \cup {DeletedId}
\* an optional value: undefined / SQL NULL is <<>>, a present value v is <<v>>
Absent == <<>>
Some(v) == <<v>>
IsSome(o) == Len(o) = 1
Get(o) == o[1]
NoRequest ==
    [op |-> "none", user |-> NULL, id |-> 0, data |-> Absent, status |-> 0,
     body |-> Absent]
\* a user acts inside the debounce window or after it has elapsed
Delays == {Debounce \div 2, Debounce}
\* the times a time picker is set to: before or after every logged event
EditTimes == {0, MaxTime}

Max(a, b) == IF a >= b THEN a ELSE b
RemoveAt(s, i) == SubSeq(s, 1, i - 1) \o SubSeq(s, i + 1, Len(s))

(***************************************************************************)
(* Ledger: pure parts of the handlers                                      *)
(***************************************************************************)
OppositeTeam(t) == IF t = "color" THEN "white" ELSE "color"

\* [...tc].reverse().findIndex(...) mapped back to an index of tc; 0 = not found
LastSwapIndex(tc, p) ==
    LET S == {i \in 1..Len(tc) : tc[i].player = p /\ tc[i].type = "swap"}
    IN IF S = {} THEN 0 ELSE CHOOSE i \in S : \A j \in S : j <= i

\* a mutant: the comparison looks for goals before the swap
GoalAfterLastSwap_Before(gs, ts) ==
    \E i \in 1..Len(gs) : gs[i].timestamp < ts

\* goals.some(g => g.timestamp > lastSwap.timestamp)
GoalAfterLastSwap(gs, ts) == \E i \in 1..Len(gs) : gs[i].timestamp > ts

\* a mutant: the entry records the two teams the wrong way round
SwapEntry_Reversed(p, cur, t) ==
    [player |-> p, timestamp |-> t, team |-> OppositeTeam(cur), type |-> "swap",
     previousTeam |-> OppositeTeam(cur), newTeam |-> cur]

SwapEntry(p, cur, t) ==
    [player |-> p, timestamp |-> t, team |-> OppositeTeam(cur), type |-> "swap",
     previousTeam |-> cur, newTeam |-> OppositeTeam(cur)]

\* a mutant: the revert check looks only at the goals of the swapped player
SwapTeamChanges_OwnGoals(tc, gs, p, cur, t) ==
    LET k == LastSwapIndex(tc, p)
        own == SelectSeq(gs, LAMBDA g : g.scorer = p)
    IN IF k # 0 /\ tc[k].previousTeam = OppositeTeam(cur)
                /\ ~GoalAfterLastSwap(own, tc[k].timestamp)
       THEN RemoveAt(tc, k)
       ELSE Append(tc, SwapEntry(p, cur, t))

\* the setTeamChanges updater of handleSwapTeam
SwapTeamChanges(tc, gs, p, cur, t) ==
    LET k == LastSwapIndex(tc, p)
    IN IF k # 0 /\ tc[k].previousTeam = OppositeTeam(cur)
                /\ ~GoalAfterLastSwap(gs, tc[k].timestamp)
       THEN RemoveAt(tc, k)
       ELSE Append(tc, SwapEntry(p, cur, t))

\* a mutant: the leave entry does not capture the team
LeaveEntry_NoTeam(p, team, t) ==
    [player |-> p, timestamp |-> t, team |-> NULL, type |-> "leave",
     previousTeam |-> NULL, newTeam |-> NULL]

LeaveEntry(p, team, t) ==
    [player |-> p, timestamp |-> t, team |-> team, type |-> "leave",
     previousTeam |-> NULL, newTeam |-> NULL]

\* a mutant: return removes only the leave entries of the player
ReturnTeamChanges_LeaveOnly(tc, p) ==
    SelectSeq(tc, LAMBDA e : ~(e.player = p /\ e.type = "leave"))

\* prev.filter(entry => entry.player.id !== playerId)
ReturnTeamChanges(tc, p) == SelectSeq(tc, LAMBDA e : e.player # p)

\* playerTeams[id] || null
TeamOrNull(pt, p) == IF pt[p] = NONE THEN NULL ELSE pt[p]

\* a mutant: the goal is recorded without a team
NewGoal_NoTeam(pt, scorer, assister, t) ==
    [scorer |-> scorer, assister |-> assister, timestamp |-> t, team |-> NULL]

\* the record appended by handleAssisterSelected
NewGoal(pt, scorer, assister, t) ==
    [scorer |-> scorer, assister |-> assister, timestamp |-> t,
     team |-> TeamOrNull(pt, scorer)]

\* the record written by handleEditAssisterSelected
EditedGoal(pt, old, scorer, assister) ==
    [scorer |-> scorer, assister |-> assister, timestamp |-> old.timestamp,
     team |-> TeamOrNull(pt, scorer)]

\* a mutant: the score follows the scorers' current assignments
Score_CurrentTeams(gs, side) ==
    Len(SelectSeq(gs, LAMBDA g : playerTeams[g.scorer] = side))

\* the score box: goals.filter(g => g.team === side).length
Score(gs, side) == Len(SelectSeq(gs, LAMBDA g : g.team = side))

\* a mutant: the scorer is not filtered out of the candidates
getTeamPlayers_WithScorer(pt, scorer) ==
    IF pt[scorer] = NONE THEN {}
    ELSE {p \in PlayerIds : pt[p] = pt[scorer]}

\* allPlayers.filter(p => p.id !== scorer.id && playerTeams[p.id] === scorerTeam)
getTeamPlayers(pt, scorer) ==
    IF pt[scorer] = NONE THEN {}
    ELSE {p \in PlayerIds : p # scorer /\ pt[p] = pt[scorer]}

(***************************************************************************)
(* Wire formats                                                            *)
(***************************************************************************)
\* Date.prototype.toISOString / new Date(iso): millisecond precision both ways
toISOString(ms) == [iso |-> ms]
ParseDate(str) == str.iso

\* JSON.stringify of a value the schema accepted
JSONStringify(v) == [json |-> v]

\* safeParseJSON: fallback for a null/empty column or a parsed null
safeParseJSON(value, fallback) ==
    IF ~IsSome(value) THEN fallback ELSE Get(value).json

EmptyTeams == [p \in AllIds |-> NONE]

\* goals.map(goal => ({scorerId, assisterId, timestamp, team})) of saveGameData
GoalsData(gs) ==
    [i \in 1..Len(gs) |->
        [scorerId |-> gs[i].scorer, assisterId |-> gs[i].assister,
         timestamp |-> toISOString(gs[i].timestamp), team |-> gs[i].team]]

\* teamChanges.map(change => ({playerId, ...})) of saveGameData
TeamChangesData(tc) ==
    [i \in 1..Len(tc) |->
        [playerId |-> tc[i].player, timestamp |-> toISOString(tc[i].timestamp),
         team |-> tc[i].team, type |-> tc[i].type,
         previousTeam |-> tc[i].previousTeam, newTeam |-> tc[i].newTeam]]

\* the body saveGameData passes to updateGame
SavePayload(pt, gs, tc) ==
    [teamAssignments |-> Some(pt), goals |-> Some(GoalsData(gs)),
     teamChanges |-> Some(TeamChangesData(tc)), createdAt |-> Absent,
     gameNumber |-> Absent]

\* gameData.goals.map(...).filter(g => g !== null) of loadGameData
RestoreGoals(gd) ==
    LET known == SelectSeq(gd, LAMBDA g : g.scorerId \in PlayerIds)
    IN [i \in 1..Len(known) |->
          [scorer |-> known[i].scorerId,
           assister |-> IF known[i].assisterId \in PlayerIds
                        THEN known[i].assisterId ELSE NULL,
           timestamp |-> ParseDate(known[i].timestamp),
           team |-> known[i].team]]

\* gameData.teamChanges.map(...).filter(tc => tc !== null) of loadGameData
RestoreTeamChanges(cd) ==
    LET known == SelectSeq(cd, LAMBDA c : c.playerId \in PlayerIds)
    IN [i \in 1..Len(known) |->
          [player |-> known[i].playerId,
           timestamp |-> ParseDate(known[i].timestamp),
           team |-> known[i].team, type |-> known[i].type,
           previousTeam |-> known[i].previousTeam,
           newTeam |-> known[i].newTeam]]

(***************************************************************************)
(* Game store: the routes of backend/src/routes/games.ts                   *)
(***************************************************************************)
\* a mutant: the body is not validated
ValidUpdate_Unchecked(data) == TRUE

\* updateGameSchema.safeParse(req.body).success
ValidUpdate(data) ==
    \* gameNumber: z.number().int().positive().optional()
    IsSome(data.gameNumber) => Get(data.gameNumber) > 0

\* a mutant: a column that already holds data is not overwritten
UpdateRow_KeepExisting(row, data) ==
    [row EXCEPT
        !.teamAssignments = IF IsSome(data.teamAssignments) /\ ~IsSome(@)
                            THEN Some(JSONStringify(Get(data.teamAssignments)))
                            ELSE @,
        !.goals = IF IsSome(data.goals) /\ ~IsSome(@)
                  THEN Some(JSONStringify(Get(data.goals))) ELSE @,
        !.createdAt = IF IsSome(data.createdAt)
                      THEN ParseDate(Get(data.createdAt)) ELSE @,
        !.gameNumber = IF IsSome(data.gameNumber) THEN data.gameNumber ELSE @]

\* updateData of router.put('/:id') applied by prisma.game.update
UpdateRow(row, data) ==
    [row EXCEPT
        !.teamAssignments = IF IsSome(data.teamAssignments)
                            THEN Some(JSONStringify(Get(data.teamAssignments)))
                            ELSE @,
        !.goals = IF IsSome(data.goals)
                  THEN Some(JSONStringify(Get(data.goals))) ELSE @,
        !.createdAt = IF IsSome(data.createdAt)
                      THEN ParseDate(Get(data.createdAt)) ELSE @,
        !.gameNumber = IF IsSome(data.gameNumber) THEN data.gameNumber ELSE @]

\* parsedGame of router.get('/:id'): the row with its two JSON columns parsed
ParsedGame(row) ==
    [gameNumber |-> row.gameNumber, createdAt |-> toISOString(row.createdAt),
     teamAssignments |-> safeParseJSON(row.teamAssignments, EmptyTeams),
     goals |-> safeParseJSON(row.goals, <<>>),
     teamChanges |-> Absent]

\* the row prisma.game.create inserts
NewRow(n, t) ==
    [gameNumber |-> Some(n), createdAt |-> t,
     teamAssignments |-> Absent, goals |-> Absent]

(***************************************************************************)
(* Ledger: autosave effect (useEffect over playerTeams, goals, loading,    *)
(* saveGameData) and the handlers                                          *)
(***************************************************************************)
Timer(t, pt, gs, tc) ==
    [due |-> t + Debounce, teams |-> pt, goals |-> gs, changes |-> tc]

\* a mutant: the effect's cleanup does not clear the pending timeout
AutosaveEffect_NoClear(tm, ld, t, pt, gs, tc) ==
    IF ld THEN tm ELSE tm \cup {Timer(t, pt, gs, tc)}

\* cleanup (clearTimeout) of the previous run, then setTimeout unless loading
AutosaveEffect(tm, ld, t, pt, gs, tc) ==
    IF ld THEN {} ELSE {Timer(t, pt, gs, tc)}

\* no handler has changed the ledger since the editor was opened
Unedited(op) ==
    pristine /\ op.op \notin {"swap", "assign", "remove", "leave", "return",
                              "recordGoal", "goalTime", "editAssister",
                              "confirmDeleteGoal", "changeTime",
                              "confirmDeleteChange"}

\* ---- a monitor of the handlers run since a player's first swap ----
NoScenario == [phase |-> "idle", player |-> NULL, goal |-> FALSE]
\* steps that neither edit the ledger nor are a swap
Bystanders == {"goalClick", "closeGoalModal", "save", "saved", "saveFailed"}
\* "swapped": the player, who had no team change entry, was swapped, and
\* since then only goals were recorded; "done": the player was swapped again
Tracked(op) ==
    IF op.op = "swap"
    THEN IF swapScenario.phase = "swapped" /\ swapScenario.player = op.player
         THEN [swapScenario EXCEPT !.phase = "done"]
         ELSE IF \A i \in 1..Len(teamChanges) : teamChanges[i].player # op.player
         THEN [phase |-> "swapped", player |-> op.player, goal |-> FALSE]
         ELSE NoScenario
    ELSE IF swapScenario.phase # "swapped" THEN NoScenario
    ELSE IF op.op = "recordGoal" THEN [swapScenario EXCEPT !.goal = TRUE]
    ELSE IF op.op \in Bystanders THEN swapScenario
    ELSE NoScenario

\* the ledger data a handler may change
Snap == [teams |-> playerTeams, left |-> leftPlayers, goals |-> goals,
         changes |-> teamChanges]

Op(name, p, i) == [op |-> name, player |-> p, index |-> i]

\* the teams and summary sections are rendered only when !loading && !error
Interactive == ~loading /\ ~error
\* every modal is a full-screen overlay
NoModal ==
    /\ goalScorer = NULL /\ editingGoalIndex = 0 /\ goalToDelete = 0
    /\ editingTeamChangeIndex = 0 /\ teamChangeToDelete = 0
\* the goal / swap / leave buttons exist for assigned players not flagged as left
ActiveOnTeam(p) == playerTeams[p] # NONE /\ p \notin leftPlayers

\* a user event d ms after the previous step; timeouts due by then ran first
Click(d) ==
    /\ now + d <= MaxTime
    /\ \A t \in timers : t.due > now + d
    /\ now' = now + d

\* the re-render after a change of playerTeams, goals or teamChanges
Rerender(pt, gs, tc) ==
    /\ timers' = AutosaveEffect(timers, loading, now', pt, gs, tc)
    /\ lastSched' = now'
    /\ saves' = 0

modalVars == <<goalScorer, editingGoalIndex, editingScorer, goalToDelete>>
changeModalVars == <<editingTeamChangeIndex, teamChangeToDelete>>
netVars == <<inflight, server, nwrites, lastSaved, writeFailed>>
saveVars == <<timers, lastSched, saves>>

\* the setPlayerTeams updater: the same team again deselects it
SelectTeam(teams, p, team) ==
    [teams EXCEPT ![p] = IF @ = team THEN NONE ELSE team]

\* a mutant: assigning a team leaves the left flag as it was
ResetLeft_Keep(left, p) == left

\* the setLeftPlayers updater: the player is active again
ResetLeft(left, p) == left \ {p}

handleTeamSelect(p, team) ==
    \E d \in Delays :
        /\ Interactive /\ NoModal /\ Click(d)
        /\ playerTeams' = SelectTeam(playerTeams, p, team)
        /\ leftPlayers' = ResetLeft(leftPlayers, p)
        /\ Rerender(playerTeams', goals, teamChanges)
        /\ lastOp' = Op("assign", p, 0)
        /\ prev' = Snap
        /\ swapScenario' = Tracked(lastOp')
        /\ pristine' = Unedited(lastOp')
        /\ UNCHANGED <<storeVars, statsVars, changeModalVars>>
        /\ UNCHANGED <<goals, teamChanges, modalVars, loading, error, netVars>>

\* defined by the component and handed to ActivePlayersSection
handleRemoveFromTeam(p) ==
    \E d \in Delays :
        /\ Interactive /\ NoModal /\ Click(d)
        /\ playerTeams[p] # NONE
        /\ playerTeams' = [playerTeams EXCEPT ![p] = NONE]
        /\ Rerender(playerTeams', goals, teamChanges)
        /\ lastOp' = Op("remove", p, 0)
        /\ prev' = Snap
        /\ swapScenario' = Tracked(lastOp')
        /\ pristine' = Unedited(lastOp')
        /\ UNCHANGED <<storeVars, statsVars, changeModalVars>>
        /\ UNCHANGED <<leftPlayers, goals, teamChanges, modalVars, loading,
                       error, netVars>>

handleSwapTeam(p) ==
    \E d \in Delays :
        /\ Interactive /\ NoModal /\ Click(d)
        /\ ActiveOnTeam(p)
        /\ teamChanges' = SwapTeamChanges(teamChanges, goals, p, playerTeams[p], now')
        /\ Len(teamChanges') <= MaxChanges
        /\ playerTeams' = [playerTeams EXCEPT ![p] = OppositeTeam(@)]
        /\ Rerender(playerTeams', goals, teamChanges')
        /\ lastOp' = Op("swap", p, 0)
        /\ prev' = Snap
        /\ swapScenario' = Tracked(lastOp')
        /\ pristine' = Unedited(lastOp')
        /\ UNCHANGED <<storeVars, statsVars, changeModalVars>>
        /\ UNCHANGED <<leftPlayers, goals, modalVars, loading, error, netVars>>

handleLeaveTeam(p) ==
    \E d \in Delays :
        /\ Interactive /\ NoModal /\ Click(d)
        /\ ActiveOnTeam(p)
        /\ Len(teamChanges) < MaxChanges
        /\ leftPlayers' = leftPlayers \cup {p}
        /\ teamChanges' = Append(teamChanges, LeaveEntry(p, playerTeams[p], now'))
        /\ Rerender(playerTeams, goals, teamChanges')
        /\ lastOp' = Op("leave", p, 0)
        /\ prev' = Snap
        /\ swapScenario' = Tracked(lastOp')
        /\ pristine' = Unedited(lastOp')
        /\ UNCHANGED <<storeVars, statsVars, changeModalVars>>
        /\ UNCHANGED <<playerTeams, goals, modalVars, loading, error, netVars>>

handleReturnToTeam(p) ==
    \E d \in Delays :
        /\ Interactive /\ NoModal /\ Click(d)
        /\ playerTeams[p] # NONE /\ p \in leftPlayers
        /\ leftPlayers' = leftPlayers \ {p}
        /\ teamChanges' = ReturnTeamChanges(teamChanges, p)
        /\ Rerender(playerTeams, goals, teamChanges')
        /\ lastOp' = Op("return", p, 0)
        /\ prev' = Snap
        /\ swapScenario' = Tracked(lastOp')
        /\ pristine' = Unedited(lastOp')
        /\ UNCHANGED <<storeVars, statsVars, changeModalVars>>
        /\ UNCHANGED <<playerTeams, goals, modalVars, loading, error, netVars>>

handleGoalClick(p) ==
    \E d \in Delays :
        /\ Interactive /\ NoModal /\ Click(d)
        /\ ActiveOnTeam(p)
        /\ Len(goals) < MaxGoals
        /\ goalScorer' = p
        /\ lastOp' = Op("goalClick", p, 0)
        /\ prev' = Snap
        /\ swapScenario' = Tracked(lastOp')
        /\ pristine' = Unedited(lastOp')
        /\ UNCHANGED <<storeVars, statsVars, changeModalVars>>
        /\ UNCHANGED <<playerTeams, leftPlayers, goals, teamChanges,
                       editingGoalIndex, editingScorer, goalToDelete, loading,
                       error, netVars, saveVars>>

\* GoalAssistModal: a teammate or skip; onSelectAssister then onClose
handleAssisterSelected(a) ==
    \E d \in Delays :
        /\ goalScorer # NULL /\ editingGoalIndex = 0 /\ Click(d)
        /\ a \in {NULL} \cup getTeamPlayers(playerTeams, goalScorer)
        /\ goals' = Append(goals, NewGoal(playerTeams, goalScorer, a, now'))
        /\ goalScorer' = NULL
        /\ Rerender(playerTeams, goals', teamChanges)
        /\ lastOp' = Op("recordGoal", goalScorer, Len(goals'))
        /\ prev' = Snap
        /\ swapScenario' = Tracked(lastOp')
        /\ pristine' = Unedited(lastOp')
        /\ UNCHANGED <<storeVars, statsVars, changeModalVars>>
        /\ UNCHANGED <<playerTeams, leftPlayers, teamChanges, editingGoalIndex,
                       editingScorer, goalToDelete, loading, error, netVars>>

handleCloseGoalModal ==
    \E d \in Delays :
        /\ goalScorer # NULL /\ editingGoalIndex = 0 /\ Click(d)
        /\ goalScorer' = NULL
        /\ lastOp' = Op("closeGoalModal", NULL, 0)
        /\ prev' = Snap
        /\ swapScenario' = Tracked(lastOp')
        /\ pristine' = Unedited(lastOp')
        /\ UNCHANGED <<storeVars, statsVars, changeModalVars>>
        /\ UNCHANGED <<playerTeams, leftPlayers, goals, teamChanges,
                       editingGoalIndex, editingScorer, goalToDelete, loading,
                       error, netVars, saveVars>>

handleEditGoal(i) ==
    \E d \in Delays :
        /\ Interactive /\ NoModal /\ Click(d)
        /\ i \in 1..Len(goals)
        /\ editingGoalIndex' = i
        /\ editingScorer' = goals[i].scorer
        /\ lastOp' = Op("editGoal", goals[i].scorer, i)
        /\ prev' = Snap
        /\ swapScenario' = Tracked(lastOp')
        /\ pristine' = Unedited(lastOp')
        /\ UNCHANGED <<storeVars, statsVars, changeModalVars>>
        /\ UNCHANGED <<playerTeams, leftPlayers, goals, teamChanges, goalScorer,
                       goalToDelete, loading, error, netVars, saveVars>>

\* onTimeChange of the edit-scorer modal
handleGoalTimeChange(newTime) ==
    \E d \in Delays :
        /\ editingGoalIndex # 0 /\ editingScorer # NULL /\ goalScorer = NULL
        /\ Click(d)
        /\ goals' = [goals EXCEPT ![editingGoalIndex].timestamp = newTime]
        /\ Rerender(playerTeams, goals', teamChanges)
        /\ lastOp' = Op("goalTime", editingScorer, editingGoalIndex)
        /\ prev' = Snap
        /\ swapScenario' = Tracked(lastOp')
        /\ pristine' = Unedited(lastOp')
        /\ UNCHANGED <<storeVars, statsVars, changeModalVars>>
        /\ UNCHANGED <<playerTeams, leftPlayers, teamChanges, modalVars,
                       loading, error, netVars>>

\* onSelectScorer of the edit-scorer modal, which lists teamPlayers
handleEditScorerSelected(newScorer) ==
    \E d \in Delays :
        /\ editingGoalIndex # 0 /\ editingScorer # NULL /\ goalScorer = NULL
        /\ Click(d)
        /\ newScorer \in getTeamPlayers(playerTeams, editingScorer)
        /\ editingScorer' = newScorer
        /\ goalScorer' = newScorer
        /\ lastOp' = Op("editScorer", newScorer, editingGoalIndex)
        /\ prev' = Snap
        /\ swapScenario' = Tracked(lastOp')
        /\ pristine' = Unedited(lastOp')
        /\ UNCHANGED <<storeVars, statsVars, changeModalVars>>
        /\ UNCHANGED <<playerTeams, leftPlayers, goals, teamChanges,
                       editingGoalIndex, goalToDelete, loading, error, netVars,
                       saveVars>>

handleEditScorerSkip ==
    \E d \in Delays :
        /\ editingGoalIndex # 0 /\ editingScorer # NULL /\ goalScorer = NULL
        /\ Click(d)
        /\ goalScorer' = editingScorer
        /\ lastOp' = Op("editSkip", editingScorer, editingGoalIndex)
        /\ prev' = Snap
        /\ swapScenario' = Tracked(lastOp')
        /\ pristine' = Unedited(lastOp')
        /\ UNCHANGED <<storeVars, statsVars, changeModalVars>>
        /\ UNCHANGED <<playerTeams, leftPlayers, goals, teamChanges,
                       editingGoalIndex, editingScorer, goalToDelete, loading,
                       error, netVars, saveVars>>

\* GoalAssistModal in edit mode: onSelectAssister then onClose
handleEditAssisterSelected(a) ==
    \E d \in Delays :
        /\ goalScorer # NULL /\ editingGoalIndex # 0 /\ editingScorer # NULL
        /\ Click(d)
        /\ a \in {NULL} \cup getTeamPlayers(playerTeams, goalScorer)
        /\ goals' = [goals EXCEPT ![editingGoalIndex] =
                        EditedGoal(playerTeams, @, editingScorer, a)]
        /\ editingGoalIndex' = 0
        /\ editingScorer' = NULL
        /\ goalScorer' = NULL
        /\ Rerender(playerTeams, goals', teamChanges)
        /\ lastOp' = Op("editAssister", editingScorer, editingGoalIndex)
        /\ prev' = Snap
        /\ swapScenario' = Tracked(lastOp')
        /\ pristine' = Unedited(lastOp')
        /\ UNCHANGED <<storeVars, statsVars, changeModalVars>>
        /\ UNCHANGED <<playerTeams, leftPlayers, teamChanges, goalToDelete,
                       loading, error, netVars>>

handleCloseEditModal ==
    \E d \in Delays :
        /\ editingGoalIndex # 0 /\ Click(d)
        /\ editingGoalIndex' = 0
        /\ editingScorer' = NULL
        /\ goalScorer' = NULL
        /\ lastOp' = Op("closeEditModal", NULL, 0)
        /\ prev' = Snap
        /\ swapScenario' = Tracked(lastOp')
        /\ pristine' = Unedited(lastOp')
        /\ UNCHANGED <<storeVars, statsVars, changeModalVars>>
        /\ UNCHANGED <<playerTeams, leftPlayers, goals, teamChanges,
                       goalToDelete, loading, error, netVars, saveVars>>

handleDeleteGoal(i) ==
    \E d \in Delays :
        /\ Interactive /\ NoModal /\ Click(d)
        /\ i \in 1..Len(goals)
        /\ goalToDelete' = i
        /\ lastOp' = Op("deleteGoal", NULL, i)
        /\ prev' = Snap
        /\ swapScenario' = Tracked(lastOp')
        /\ pristine' = Unedited(lastOp')
        /\ UNCHANGED <<storeVars, statsVars, changeModalVars>>
        /\ UNCHANGED <<playerTeams, leftPlayers, goals, teamChanges, goalScorer,
                       editingGoalIndex, editingScorer, loading, error, netVars,
                       saveVars>>

handleConfirmDeleteGoal ==
    \E d \in Delays :
        /\ goalToDelete # 0 /\ Click(d)
        /\ goals' = RemoveAt(goals, goalToDelete)
        /\ goalToDelete' = 0
        /\ Rerender(playerTeams, goals', teamChanges)
        /\ lastOp' = Op("confirmDeleteGoal", NULL, goalToDelete)
        /\ prev' = Snap
        /\ swapScenario' = Tracked(lastOp')
        /\ pristine' = Unedited(lastOp')
        /\ UNCHANGED <<storeVars, statsVars, changeModalVars>>
        /\ UNCHANGED <<playerTeams, leftPlayers, teamChanges, goalScorer,
                       editingGoalIndex, editingScorer, loading, error, netVars>>

handleCancelDeleteGoal ==
    \E d \in Delays :
        /\ goalToDelete # 0 /\ Click(d)
        /\ goalToDelete' = 0
        /\ lastOp' = Op("cancelDeleteGoal", NULL, 0)
        /\ prev' = Snap
        /\ swapScenario' = Tracked(lastOp')
        /\ pristine' = Unedited(lastOp')
        /\ UNCHANGED <<storeVars, statsVars, changeModalVars>>
        /\ UNCHANGED <<playerTeams, leftPlayers, goals, teamChanges, goalScorer,
                       editingGoalIndex, editingScorer, loading, error, netVars,
                       saveVars>>

\* the clock button of a team change row
handleEditTeamChangeTime(i) ==
    \E d \in Delays :
        /\ Interactive /\ NoModal /\ Click(d)
        /\ i \in 1..Len(teamChanges)
        /\ editingTeamChangeIndex' = i
        /\ lastOp' = Op("editChangeTime", teamChanges[i].player, i)
        /\ prev' = Snap
        /\ swapScenario' = Tracked(lastOp')
        /\ pristine' = Unedited(lastOp')
        /\ UNCHANGED <<storeVars, statsVars, teamChangeToDelete>>
        /\ UNCHANGED <<playerTeams, leftPlayers, goals, teamChanges, modalVars,
                       loading, error, netVars, saveVars>>

\* onSelect of the team change time picker
handleTeamChangeTimeChange(newTime) ==
    \E d \in Delays :
        /\ editingTeamChangeIndex # 0 /\ Click(d)
        /\ teamChanges' =
              [teamChanges EXCEPT ![editingTeamChangeIndex].timestamp = newTime]
        /\ editingTeamChangeIndex' = 0
        /\ Rerender(playerTeams, goals, teamChanges')
        /\ lastOp' = Op("changeTime", NULL, editingTeamChangeIndex)
        /\ prev' = Snap
        /\ swapScenario' = Tracked(lastOp')
        /\ pristine' = Unedited(lastOp')
        /\ UNCHANGED <<storeVars, statsVars, teamChangeToDelete>>
        /\ UNCHANGED <<playerTeams, leftPlayers, goals, modalVars, loading,
                       error, netVars>>

handleCloseTeamChangeTimePicker ==
    \E d \in Delays :
        /\ editingTeamChangeIndex # 0 /\ Click(d)
        /\ editingTeamChangeIndex' = 0
        /\ lastOp' = Op("closeChangeTime", NULL, 0)
        /\ prev' = Snap
        /\ swapScenario' = Tracked(lastOp')
        /\ pristine' = Unedited(lastOp')
        /\ UNCHANGED <<storeVars, statsVars, teamChangeToDelete>>
        /\ UNCHANGED <<playerTeams, leftPlayers, goals, teamChanges, modalVars,
                       loading, error, netVars, saveVars>>

\* the delete button of a team change row
handleDeleteTeamChange(i) ==
    \E d \in Delays :
        /\ Interactive /\ NoModal /\ Click(d)
        /\ i \in 1..Len(teamChanges)
        /\ teamChangeToDelete' = i
        /\ lastOp' = Op("deleteChange", teamChanges[i].player, i)
        /\ prev' = Snap
        /\ swapScenario' = Tracked(lastOp')
        /\ pristine' = Unedited(lastOp')
        /\ UNCHANGED <<storeVars, statsVars, editingTeamChangeIndex>>
        /\ UNCHANGED <<playerTeams, leftPlayers, goals, teamChanges, modalVars,
                       loading, error, netVars, saveVars>>

handleConfirmDeleteTeamChange ==
    \E d \in Delays :
        /\ teamChangeToDelete # 0 /\ Click(d)
        /\ teamChanges' = RemoveAt(teamChanges, teamChangeToDelete)
        /\ teamChangeToDelete' = 0
        /\ Rerender(playerTeams, goals, teamChanges')
        /\ lastOp' = Op("confirmDeleteChange", NULL, teamChangeToDelete)
        /\ prev' = Snap
        /\ swapScenario' = Tracked(lastOp')
        /\ pristine' = Unedited(lastOp')
        /\ UNCHANGED <<storeVars, statsVars, editingTeamChangeIndex>>
        /\ UNCHANGED <<playerTeams, leftPlayers, goals, modalVars, loading,
                       error, netVars>>

handleCancelDeleteTeamChange ==
    \E d \in Delays :
        /\ teamChangeToDelete # 0 /\ Click(d)
        /\ teamChangeToDelete' = 0
        /\ lastOp' = Op("cancelDeleteChange", NULL, 0)
        /\ prev' = Snap
        /\ swapScenario' = Tracked(lastOp')
        /\ pristine' = Unedited(lastOp')
        /\ UNCHANGED <<storeVars, statsVars, editingTeamChangeIndex>>
        /\ UNCHANGED <<playerTeams, leftPlayers, goals, teamChanges, modalVars,
                       loading, error, netVars, saveVars>>

\* loadGameData, both fetches resolved
LoadDone ==
    \E d \in Delays :
        LET gameData == ParsedGame(server) IN
        /\ loading /\ Click(d)
        /\ playerTeams' = gameData.teamAssignments
        /\ goals' = IF Len(gameData.goals) > 0
                    THEN RestoreGoals(gameData.goals) ELSE goals
        /\ teamChanges' = IF IsSome(gameData.teamChanges)
                             /\ Len(Get(gameData.teamChanges)) > 0
                          THEN RestoreTeamChanges(Get(gameData.teamChanges))
                          ELSE teamChanges
        /\ loading' = FALSE
        /\ timers' = AutosaveEffect(timers, loading', now', playerTeams', goals',
                                    teamChanges')
        /\ lastSched' = now'
        /\ saves' = 0
        /\ lastOp' = Op("load", NULL, 0)
        /\ prev' = Snap
        /\ swapScenario' = Tracked(lastOp')
        /\ pristine' = Unedited(lastOp')
        /\ UNCHANGED <<storeVars, statsVars, changeModalVars>>
        /\ UNCHANGED <<leftPlayers, modalVars, error, netVars>>

\* loadGameData, a fetch rejected: catch sets error, finally clears loading
LoadFail ==
    \E d \in Delays :
        /\ loading /\ Click(d)
        /\ error' = TRUE
        /\ loading' = FALSE
        /\ timers' = AutosaveEffect(timers, loading', now', playerTeams, goals,
                                    teamChanges)
        /\ lastSched' = now'
        /\ saves' = 0
        /\ lastOp' = Op("loadFailed", NULL, 0)
        /\ prev' = Snap
        /\ swapScenario' = Tracked(lastOp')
        /\ pristine' = Unedited(lastOp')
        /\ UNCHANGED <<storeVars, statsVars, changeModalVars>>
        /\ UNCHANGED <<playerTeams, leftPlayers, goals, teamChanges, modalVars,
                       netVars>>

\* the autosave timeout runs saveGameData of the render that set it
TimerFire ==
    \E t \in timers :
        /\ \A u \in timers : t.due <= u.due
        /\ nwrites < MaxWrites
        /\ now' = Max(now, t.due)
        /\ timers' = timers \ {t}
        /\ nwrites' = nwrites + 1
        /\ lastSaved' = Some(SavePayload(t.teams, t.goals, t.changes))
        /\ inflight' = inflight \cup {[id |-> nwrites', data |-> Get(lastSaved')]}
        /\ saves' = saves + 1
        /\ lastOp' = Op("save", NULL, nwrites')
        /\ prev' = Snap
        /\ swapScenario' = Tracked(lastOp')
        /\ pristine' = Unedited(lastOp')
        /\ UNCHANGED <<storeVars, statsVars, changeModalVars>>
        /\ UNCHANGED <<playerTeams, leftPlayers, goals, teamChanges, modalVars,
                       loading, error, server, lastSched, writeFailed>>

\* the store answers a PUT of the session with 200
PutOk ==
    \E r \in inflight :
        /\ server' = UpdateRow(server, r.data)
        /\ inflight' = inflight \ {r}
        /\ lastOp' = Op("saved", NULL, r.id)
        /\ prev' = Snap
        /\ swapScenario' = Tracked(lastOp')
        /\ pristine' = Unedited(lastOp')
        /\ UNCHANGED <<storeVars, statsVars, changeModalVars>>
        /\ UNCHANGED <<playerTeams, leftPlayers, goals, teamChanges, modalVars,
                       loading, error, now, nwrites, lastSaved, saveVars,
                       writeFailed>>

\* a mutant: the catch block surfaces the failure
SaveCatch_Surfaced(e) == TRUE

\* the catch block of saveGameData: console.error and nothing else
SaveCatch(e) == e

\* the PUT rejects: saveGameData only logs the error
PutFail ==
    \E r \in inflight :
        /\ inflight' = inflight \ {r}
        /\ error' = SaveCatch(error)
        /\ writeFailed' = TRUE
        /\ lastOp' = Op("saveFailed", NULL, r.id)
        /\ prev' = Snap
        /\ swapScenario' = Tracked(lastOp')
        /\ pristine' = Unedited(lastOp')
        /\ UNCHANGED <<storeVars, statsVars, changeModalVars>>
        /\ UNCHANGED <<playerTeams, leftPlayers, goals, teamChanges, modalVars,
                       loading, now, server, nwrites, lastSaved, saveVars>>

\* a game stored by an earlier session: one goal of a since-deleted player
StoredTeams == [p \in AllIds |-> IF p = DeletedId THEN "white" ELSE "color"]
StoredGoals ==
    <<[scorerId |-> DeletedId, assisterId |-> NULL,
       timestamp |-> toISOString(0), team |-> "white"],
      [scorerId |-> "p1", assisterId |-> "p2",
       timestamp |-> toISOString(0), team |-> "color"]>>
StoredRow ==
    [gameNumber |-> Some(1), createdAt |-> 0,
     teamAssignments |-> Some(JSONStringify(StoredTeams)),
     goals |-> Some(JSONStringify(StoredGoals))]
\* a game stored after the time of its goal was set ahead in the time picker
AheadGoals ==
    <<[scorerId |-> "p1", assisterId |-> NULL,
       timestamp |-> toISOString(MaxTime), team |-> "color"]>>
AheadRow ==
    [gameNumber |-> Some(1), createdAt |-> 0,
     teamAssignments |-> Some(JSONStringify(StoredTeams)),
     goals |-> Some(JSONStringify(AheadGoals))]
InitialRows == {NewRow(1, 0), StoredRow, AheadRow}

LedgerIdle ==
    /\ playerTeams = EmptyTeams /\ leftPlayers = {} /\ goals = <<>>
    /\ teamChanges = <<>> /\ goalScorer = NULL /\ editingGoalIndex = 0
    /\ editingScorer = NULL /\ goalToDelete = 0 /\ loading = TRUE
    /\ editingTeamChangeIndex = 0 /\ teamChangeToDelete = 0
    /\ error = FALSE /\ now = 0 /\ timers = {} /\ inflight = {}
    /\ nwrites = 0 /\ lastSched = 0 /\ saves = 0
    /\ lastOp = Op("mount", NULL, 0) /\ lastSaved = Absent
    /\ prev = Snap
    /\ swapScenario = NoScenario
    /\ writeFailed = FALSE /\ pristine = TRUE
StoreIdle ==
    /\ store = [i \in 1..MaxIds |-> Absent] /\ nextId = 1
    /\ lastReq = NoRequest /\ prevStore = store
StatsIdle ==
    /\ players = {} /\ games = <<>> /\ playerStats = <<>>
    /\ partnerStats = <<>>
    /\ sortColumn = "points" /\ sortDirection = "desc"

Init ==
    /\ LedgerIdle
    /\ server \in InitialRows
    /\ StoreIdle /\ StatsIdle

Next ==
    \/ \E p \in PlayerIds, team \in Teams : handleTeamSelect(p, team)
    \/ \E p \in PlayerIds : handleRemoveFromTeam(p)
    \/ \E p \in PlayerIds : handleSwapTeam(p)
    \/ \E p \in PlayerIds : handleLeaveTeam(p)
    \/ \E p \in PlayerIds : handleReturnToTeam(p)
    \/ \E p \in PlayerIds : handleGoalClick(p)
    \/ \E a \in PlayerIds \cup {NULL} : handleAssisterSelected(a)
    \/ handleCloseGoalModal
    \/ \E i \in 1..MaxGoals : handleEditGoal(i)
    \/ \E t \in EditTimes : handleGoalTimeChange(t)
    \/ \E p \in PlayerIds : handleEditScorerSelected(p)
    \/ handleEditScorerSkip
    \/ \E a \in PlayerIds \cup {NULL} : handleEditAssisterSelected(a)
    \/ handleCloseEditModal
    \/ \E i \in 1..MaxGoals : handleDeleteGoal(i)
    \/ handleConfirmDeleteGoal
    \/ handleCancelDeleteGoal
    \/ \E i \in 1..MaxChanges : handleEditTeamChangeTime(i)
    \/ \E t \in EditTimes : handleTeamChangeTimeChange(t)
    \/ handleCloseTeamChangeTimePicker
    \/ \E i \in 1..MaxChanges : handleDeleteTeamChange(i)
    \/ handleConfirmDeleteTeamChange
    \/ handleCancelDeleteTeamChange
    \/ LoadDone
    \/ LoadFail
    \/ TimerFire
    \/ PutOk
    \/ PutFail

Spec == Init /\ [][Next]_vars

(***************************************************************************)
(* Game store: requests                                                    *)
(***************************************************************************)
Users == {"anon", "regular", "admin1", "admin2"}
Admins == {"admin1", "admin2"}

\* a mutant: any signed-in user passes
requireAdmin_AnyUser(user) == IF user = "anon" THEN 401 ELSE 0

\* requireAdmin: 401 without a session, 403 for a role other than admin, else 0
requireAdmin(user) ==
    IF user = "anon" THEN 401 ELSE IF user \notin Admins THEN 403 ELSE 0

\* requireRegularOrAdmin
requireRegularOrAdmin(user) == IF user = "anon" THEN 401 ELSE 0

Rows(st) == {i \in 1..MaxIds : IsSome(st[i])}
SetMax(S) == CHOOSE x \in S : \A y \in S : y <= x

\* nextGameNumber of router.post('/')
NextGameNumber(st) ==
    LET allGames == Rows(st)
        gamesWithNumbers == {i \in allGames : IsSome(Get(st[i]).gameNumber)}
        highestGameNumber ==
            SetMax({Get(Get(st[i]).gameNumber) : i \in gamesWithNumbers})
    IN IF gamesWithNumbers # {}
       THEN IF highestGameNumber > Cardinality(gamesWithNumbers)
            THEN highestGameNumber
            ELSE highestGameNumber + 1
       ELSE IF allGames # {} THEN Cardinality(allGames) + 1 ELSE 1

\* the unique index on Game.gameNumber (Prisma error P2002)
NumberTaken(st, n, except) ==
    \E i \in Rows(st) \ except : Get(st[i]).gameNumber = Some(n)

Response(op, user, id, data, status, body) ==
    [op |-> op, user |-> user, id |-> id, data |-> data, status |-> status,
     body |-> body]

Served(r) ==
    /\ lastReq' = r
    /\ prevStore' = store
    /\ UNCHANGED <<ledgerVars, statsVars>>

\* POST /api/games
CreateGame(user) ==
    LET n == NextGameNumber(store) IN
       IF requireAdmin(user) # 0
       THEN /\ Served(Response("create", user, 0, Absent, requireAdmin(user), Absent))
            /\ UNCHANGED <<store, nextId>>
       ELSE IF NumberTaken(store, n, {})
       THEN /\ Served(Response("create", user, 0, Absent, 409, Absent))
            /\ UNCHANGED <<store, nextId>>
       ELSE /\ nextId <= MaxIds
            /\ store' = [store EXCEPT ![nextId] = Some(NewRow(n, 0))]
            /\ nextId' = nextId + 1
            /\ Served(Response("create", user, nextId, Absent, 201,
                               Some(ParsedGame(NewRow(n, 0)))))

\* GET /api/games/:id
GetGame(user, id) ==
    /\ Served(Response("get", user, id, Absent,
                IF requireRegularOrAdmin(user) # 0
                THEN requireRegularOrAdmin(user)
                ELSE IF ~IsSome(store[id]) THEN 404 ELSE 200,
                IF requireRegularOrAdmin(user) = 0 /\ IsSome(store[id])
                THEN Some(ParsedGame(Get(store[id]))) ELSE Absent))
    /\ UNCHANGED <<store, nextId>>

\* what each client sends: every editor autosaves the full state of its own
\* ledger; the first admin also submits the edit-game form, with a valid or an
\* invalid game number; the second one also a body with only team changes
TeamsA == [p \in AllIds |-> IF p = "p1" THEN "color" ELSE NONE]
TeamsB == [p \in AllIds |-> IF p = "p2" THEN "white" ELSE NONE]
GoalsA == <<[scorerId |-> "p1", assisterId |-> NULL,
             timestamp |-> toISOString(250), team |-> "color"]>>
ChangesA == <<[playerId |-> "p1", timestamp |-> toISOString(500),
               team |-> "white", type |-> "swap", previousTeam |-> "color",
               newTeam |-> "white"]>>
Body(ta, gs, tc, at, n) ==
    [teamAssignments |-> ta, goals |-> gs, teamChanges |-> tc,
     createdAt |-> at, gameNumber |-> n]
FullStateA == Body(Some(TeamsA), Some(GoalsA), Some(ChangesA), Absent, Absent)
FullStateB == Body(Some(TeamsB), Some(<<>>), Some(<<>>), Absent, Absent)
EditForms ==
    {Body(Absent, Absent, Absent, Some(toISOString(750)), Some(n)) :
        n \in 0..MaxIds}
BodiesOf(user) ==
    CASE user = "admin1" -> {FullStateA} \cup EditForms
      [] user = "admin2" -> {FullStateB,
                             Body(Absent, Absent, Some(ChangesA), Absent, Absent)}
      [] user = "regular" -> {FullStateA}
      [] OTHER -> {FullStateB}
UpdateBodies == UNION {BodiesOf(u) : u \in Users}

\* PUT /api/games/:id
UpdateGame(user, id, data) ==
    /\ data \in BodiesOf(user)
    /\ UNCHANGED nextId
    /\ IF requireAdmin(user) # 0
       THEN /\ Served(Response("update", user, id, Some(data),
                               requireAdmin(user), Absent))
            /\ UNCHANGED store
       ELSE IF ~ValidUpdate(data)
       THEN /\ Served(Response("update", user, id, Some(data), 400, Absent))
            /\ UNCHANGED store
       ELSE IF ~IsSome(store[id])
       THEN /\ Served(Response("update", user, id, Some(data), 404, Absent))
            /\ UNCHANGED store
       ELSE IF IsSome(data.gameNumber)
               /\ NumberTaken(store, Get(data.gameNumber), {id})
       THEN /\ Served(Response("update", user, id, Some(data), 500, Absent))
            /\ UNCHANGED store
       ELSE /\ store' = [store EXCEPT ![id] = Some(UpdateRow(Get(@), data))]
            /\ Served(Response("update", user, id, Some(data), 200,
                               Some(ParsedGame(Get(store'[id])))))

\* DELETE /api/games/:id
DeleteGame(user, id) ==
    IF requireAdmin(user) # 0
    THEN /\ Served(Response("delete", user, id, Absent, requireAdmin(user), Absent))
         /\ UNCHANGED <<store, nextId>>
    ELSE IF ~IsSome(store[id])
    THEN /\ Served(Response("delete", user, id, Absent, 404, Absent))
         /\ UNCHANGED <<store, nextId>>
    ELSE /\ store' = [store EXCEPT ![id] = Absent]
         /\ Served(Response("delete", user, id, Absent, 204, Absent))
         /\ UNCHANGED nextId

\* a row created before the gameNumber migration
LegacyRow ==
    [gameNumber |-> Absent, createdAt |-> 0, teamAssignments |-> Absent,
     goals |-> Absent]

StoreInit ==
    /\ LedgerIdle /\ server = NewRow(1, 0) /\ StatsIdle
    /\ \/ StoreIdle
       \/ /\ store = [i \in 1..MaxIds |-> IF i = 1 THEN Some(LegacyRow) ELSE Absent]
          /\ nextId = 2
          /\ lastReq = NoRequest /\ prevStore = store

StoreNext ==
    \/ \E u \in Users : CreateGame(u)
    \/ \E u \in Users, id \in 1..MaxIds : GetGame(u, id)
    \/ \E u \in Users, id \in 1..MaxIds, data \in UpdateBodies :
          UpdateGame(u, id, data)
    \/ \E u \in Users, id \in 1..MaxIds : DeleteGame(u, id)

StoreSpec == StoreInit /\ [][StoreNext]_vars

(***************************************************************************)
(* Overall stats: the per-player fold of OverallStatsTable                 *)
(***************************************************************************)
InitialStats ==
    [gamesPlayed |-> 0, wins |-> 0, losses |-> 0, ties |-> 0, points |-> 0,
     pointsPerGame |-> 0, goalInvolvements |-> 0, goals |-> 0, assists |-> 0,
     score |-> 0, form |-> <<>>, formWins |-> 0]

\* goals.filter(g => g.team === team).length
TeamGoals(gs, team) == Cardinality({i \in DOMAIN gs : gs[i].team = team})

\* if (!game.teamAssignments || !game.goals) return;
Skipped(game) == ~IsSome(game.teamAssignments) \/ ~IsSome(game.goals)

\* a mutant: a 0-0 game credits nobody with a tie
Credit_NoGoallessTie(stats, team, colorGoals, whiteGoals) ==
    LET colorWon == colorGoals > whiteGoals
        whiteWon == whiteGoals > colorGoals
        isTie == colorGoals = whiteGoals /\ colorGoals > 0
        played == [stats EXCEPT !.gamesPlayed = @ + 1]
    IN IF isTie THEN [played EXCEPT !.ties = @ + 1]
       ELSE IF team = "color" /\ colorWon THEN [played EXCEPT !.wins = @ + 1]
       ELSE IF team = "color" /\ whiteWon THEN [played EXCEPT !.losses = @ + 1]
       ELSE IF team = "white" /\ whiteWon THEN [played EXCEPT !.wins = @ + 1]
       ELSE IF team = "white" /\ colorWon THEN [played EXCEPT !.losses = @ + 1]
       ELSE played

\* the body of the team assignments pass for one listed player
Credit(stats, team, colorGoals, whiteGoals) ==
    LET colorWon == colorGoals > whiteGoals
        whiteWon == whiteGoals > colorGoals
        isTie == colorGoals = whiteGoals
        played == [stats EXCEPT !.gamesPlayed = @ + 1]
    IN IF isTie THEN [played EXCEPT !.ties = @ + 1]
       ELSE IF team = "color" /\ colorWon THEN [played EXCEPT !.wins = @ + 1]
       ELSE IF team = "color" /\ whiteWon THEN [played EXCEPT !.losses = @ + 1]
       ELSE IF team = "white" /\ whiteWon THEN [played EXCEPT !.wins = @ + 1]
       ELSE IF team = "white" /\ colorWon THEN [played EXCEPT !.losses = @ + 1]
       ELSE played

\* Object.entries(teamAssignments).forEach: ids outside statsMap are skipped
AssignmentsPass(statsMap, teamAssignments, colorGoals, whiteGoals) ==
    [p \in DOMAIN statsMap |->
        IF teamAssignments[p] # NONE
        THEN Credit(statsMap[p], teamAssignments[p], colorGoals, whiteGoals)
        ELSE statsMap[p]]

\* a mutant: every goal and assist counts a game played
CreditGoal_AlwaysCounts(st, goal) ==
    IF goal.scorerId \notin DOMAIN st.statsMap THEN st
    ELSE
      LET scored ==
            [statsMap |->
                [st.statsMap EXCEPT
                    ![goal.scorerId].goals = @ + 1,
                    ![goal.scorerId].gamesPlayed = @ + 1],
             playersInGame |-> st.playersInGame \cup {goal.scorerId}]
      IN IF goal.assisterId # NULL /\ goal.assisterId \in DOMAIN scored.statsMap
         THEN [statsMap |->
                  [scored.statsMap EXCEPT
                      ![goal.assisterId].assists = @ + 1,
                      ![goal.assisterId].gamesPlayed = @ + 1],
               playersInGame |-> scored.playersInGame \cup {goal.assisterId}]
         ELSE scored

\* one callback of goals.forEach; st is [statsMap, playersInGame]
CreditGoal(st, goal) ==
    IF goal.scorerId \notin DOMAIN st.statsMap THEN st
    ELSE
      LET scored ==
            [statsMap |->
                [st.statsMap EXCEPT
                    ![goal.scorerId].goals = @ + 1,
                    ![goal.scorerId].gamesPlayed =
                        IF goal.scorerId \in st.playersInGame THEN @ ELSE @ + 1],
             playersInGame |-> st.playersInGame \cup {goal.scorerId}]
      IN IF goal.assisterId # NULL /\ goal.assisterId \in DOMAIN scored.statsMap
         THEN [statsMap |->
                  [scored.statsMap EXCEPT
                      ![goal.assisterId].assists = @ + 1,
                      ![goal.assisterId].gamesPlayed =
                          IF goal.assisterId \in scored.playersInGame
                          THEN @ ELSE @ + 1],
               playersInGame |-> scored.playersInGame \cup {goal.assisterId}]
         ELSE scored

RECURSIVE GoalsPass(_, _, _)
GoalsPass(st, gs, i) ==
    IF i > Len(gs) THEN st ELSE GoalsPass(CreditGoal(st, gs[i]), gs, i + 1)

\* a mutant: only a missing assignment map makes the fold skip a game
ProcessGame_GoalsUnchecked(statsMap, game) ==
    IF ~IsSome(game.teamAssignments) THEN statsMap
    ELSE
      LET teamAssignments == Get(game.teamAssignments)
          gs == IF IsSome(game.goals) THEN Get(game.goals) ELSE <<>>
          colorGoals == TeamGoals(gs, "color")
          whiteGoals == TeamGoals(gs, "white")
          assigned == AssignmentsPass(statsMap, teamAssignments,
                                      colorGoals, whiteGoals)
          playersInGame ==
              {p \in DOMAIN statsMap : teamAssignments[p] # NONE}
      IN GoalsPass([statsMap |-> assigned, playersInGame |-> playersInGame],
                   gs, 1).statsMap

\* one callback of games.forEach
ProcessGame(statsMap, game) ==
    IF Skipped(game) THEN statsMap
    ELSE
      LET teamAssignments == Get(game.teamAssignments)
          gs == Get(game.goals)
          colorGoals == TeamGoals(gs, "color")
          whiteGoals == TeamGoals(gs, "white")
          assigned == AssignmentsPass(statsMap, teamAssignments,
                                      colorGoals, whiteGoals)
          playersInGame ==
              {p \in DOMAIN statsMap : teamAssignments[p] # NONE}
      IN GoalsPass([statsMap |-> assigned, playersInGame |-> playersInGame],
                   gs, 1).statsMap

RECURSIVE ProcessGames(_, _, _)
ProcessGames(statsMap, gms, i) ==
    IF i > Len(gms) THEN statsMap
    ELSE ProcessGames(ProcessGame(statsMap, gms[i]), gms, i + 1)

\* a mutant: the quotient is cut off after two decimal places
PointsPerGame_Truncated(points, gamesPlayed) ==
    IF gamesPlayed > 0 THEN (100 * points) \div gamesPlayed ELSE 0

\* Math.round((points / gamesPlayed) * 100) / 100, kept in hundredths
PointsPerGame(points, gamesPlayed) ==
    IF gamesPlayed > 0
    THEN (200 * points + gamesPlayed) \div (2 * gamesPlayed)
    ELSE 0

\* a mutant: a tie earns no point
Totals_TiesWorthless(stats) ==
    LET points == stats.wins * 3 IN
    [stats EXCEPT
        !.points = points,
        !.pointsPerGame = PointsPerGame(points, stats.gamesPlayed),
        !.goalInvolvements = stats.goals + stats.assists,
        !.score = points + stats.gamesPlayed + stats.goals + stats.assists]

\* points, PPG, goal involvements and score of one player
Totals(stats) ==
    LET points == stats.wins * 3 + stats.ties * 1 IN
    [stats EXCEPT
        !.points = points,
        !.pointsPerGame = PointsPerGame(points, stats.gamesPlayed),
        !.goalInvolvements = stats.goals + stats.assists,
        !.score = points + stats.gamesPlayed + stats.goals + stats.assists]

\* a mutant: the comparator sorts the oldest game first
RECURSIVE InsertByDate_OldestFirst(_, _)
InsertByDate_OldestFirst(sorted, game) ==
    IF sorted = <<>> THEN <<game>>
    ELSE IF ParseDate(Head(sorted).createdAt) <= ParseDate(game.createdAt)
    THEN <<Head(sorted)>> \o InsertByDate_OldestFirst(Tail(sorted), game)
    ELSE <<game>> \o sorted

\* [...games].sort((a, b) => dateB - dateA): a stable sort, newest first
RECURSIVE InsertByDate(_, _)
InsertByDate(sorted, game) ==
    IF sorted = <<>> THEN <<game>>
    ELSE IF ParseDate(Head(sorted).createdAt) >= ParseDate(game.createdAt)
    THEN <<Head(sorted)>> \o InsertByDate(Tail(sorted), game)
    ELSE <<game>> \o sorted

RECURSIVE sortedGames(_)
sortedGames(gms) ==
    IF gms = <<>> THEN <<>>
    ELSE InsertByDate(sortedGames(SubSeq(gms, 1, Len(gms) - 1)),
                      gms[Len(gms)])

\* a mutant: a tie is left out of the form
FormResult_TiesLeftOut(playerTeam, colorGoals, whiteGoals) ==
    IF colorGoals = whiteGoals THEN <<>>
    ELSE IF playerTeam = "color" /\ colorGoals > whiteGoals THEN <<"W">>
    ELSE IF playerTeam = "color" /\ whiteGoals > colorGoals THEN <<"L">>
    ELSE IF playerTeam = "white" /\ whiteGoals > colorGoals THEN <<"W">>
    ELSE <<"L">>

\* the result pushed to playerForm for one game of the form loop
FormResult(playerTeam, colorGoals, whiteGoals) ==
    IF colorGoals = whiteGoals THEN <<"T">>
    ELSE IF playerTeam = "color" /\ colorGoals > whiteGoals THEN <<"W">>
    ELSE IF playerTeam = "color" /\ whiteGoals > colorGoals THEN <<"L">>
    ELSE IF playerTeam = "white" /\ whiteGoals > colorGoals THEN <<"W">>
    ELSE IF playerTeam = "white" /\ colorGoals > whiteGoals THEN <<"L">>
    ELSE <<>>

\* for (const game of sortedGames) { ... } for one player
RECURSIVE playerForm(_, _, _, _)
playerForm(playerId, sorted, i, acc) ==
    IF i > Len(sorted) THEN acc
    ELSE IF Skipped(sorted[i]) THEN playerForm(playerId, sorted, i + 1, acc)
    ELSE IF Get(sorted[i].teamAssignments)[playerId] = NONE
    THEN playerForm(playerId, sorted, i + 1, acc)
    ELSE
      LET gs == Get(sorted[i].goals)
          pushed == acc \o FormResult(Get(sorted[i].teamAssignments)[playerId],
                                      TeamGoals(gs, "color"),
                                      TeamGoals(gs, "white"))
      IN IF Len(pushed) >= FormLength THEN pushed
         ELSE playerForm(playerId, sorted, i + 1, pushed)

Reverse(s) == [i \in 1..Len(s) |-> s[Len(s) + 1 - i]]
Count(s, x) == Cardinality({i \in DOMAIN s : s[i] = x})

\* stats.form and stats.formWins of one player
WithForm(stats, playerId, gms) ==
    LET form == Reverse(playerForm(playerId, sortedGames(gms), 1, <<>>)) IN
    [stats EXCEPT !.form = form,
                  !.formWins = Count(form, "W") - Count(form, "L")]

\* the useMemo body: the rows with gamesPlayed > 0, keyed by player id
PlayerStats(ps, gms) ==
    LET statsMap == ProcessGames([p \in ps |-> InitialStats], gms, 1)
        final == [p \in ps |-> WithForm(Totals(statsMap[p]), p, gms)]
    IN [p \in {q \in ps : final[q].gamesPlayed > 0} |-> final[p]]

\* the row of a player, or the initial row when the table has none
StatOf(table, p) == IF p \in DOMAIN table THEN table[p] ELSE InitialStats

(***************************************************************************)
(* Overall stats: the table order (sortedStats)                            *)
(***************************************************************************)
\* a mutant: the comparator looks at the sort column only
comparison_ColumnOnly(a, b, column) ==
    CASE column = "points" -> a.points - b.points
      [] column = "pointsPerGame" -> a.pointsPerGame - b.pointsPerGame
      [] column = "gamesPlayed" -> a.gamesPlayed - b.gamesPlayed
      [] column = "goalInvolvements" -> a.goalInvolvements - b.goalInvolvements
      [] column = "goals" -> a.goals - b.goals
      [] column = "assists" -> a.assists - b.assists
      [] OTHER -> a.formWins - b.formWins

\* the switch of the sort comparator, with each column's tie-breakers
comparison(a, b, column) ==
    \* the first difference that is not 0, else the last one
    LET TieBreak(d1, d2, d3) == IF d1 # 0 THEN d1 ELSE IF d2 # 0 THEN d2 ELSE d3
    IN
    CASE column = "points" ->
            IF a.points # b.points THEN a.points - b.points
            ELSE TieBreak(a.pointsPerGame - b.pointsPerGame,
                          a.goalInvolvements - b.goalInvolvements,
                          a.goals - b.goals)
      [] column = "pointsPerGame" ->
            TieBreak(a.pointsPerGame - b.pointsPerGame,
                     a.goalInvolvements - b.goalInvolvements,
                     a.goals - b.goals)
      [] column = "gamesPlayed" ->
            TieBreak(a.gamesPlayed - b.gamesPlayed, a.points - b.points,
                     a.goalInvolvements - b.goalInvolvements)
      [] column = "goalInvolvements" ->
            TieBreak(a.goalInvolvements - b.goalInvolvements,
                     a.goals - b.goals, a.points - b.points)
      [] column = "goals" ->
            TieBreak(a.goals - b.goals, a.assists - b.assists,
                     a.points - b.points)
      [] column = "assists" ->
            TieBreak(a.assists - b.assists, a.goals - b.goals,
                     a.points - b.points)
      [] OTHER ->
            TieBreak(a.formWins - b.formWins, a.points - b.points,
                     a.goalInvolvements - b.goalInvolvements)

\* Array.prototype.sort with the comparator
\* (sortDirection === 'asc' ? comparison : -comparison): a stable sort
RECURSIVE InsertRow(_, _, _, _)
InsertRow(sorted, row, column, direction) ==
    LET c == comparison(Head(sorted).stats, row.stats, column)
        compared == IF direction = "asc" THEN c ELSE 0 - c
    IN IF sorted = <<>> THEN <<row>>
       ELSE IF compared <= 0
       THEN <<Head(sorted)>> \o InsertRow(Tail(sorted), row, column, direction)
       ELSE <<row>> \o sorted

RECURSIVE SortRows(_, _, _)
SortRows(rows, column, direction) ==
    IF rows = <<>> THEN <<>>
    ELSE InsertRow(SortRows(SubSeq(rows, 1, Len(rows) - 1), column, direction),
                   rows[Len(rows)], column, direction)

\* the memoised sortedStats: the rows of playerStats, which
\* Array.from(statsMap.values()) lists in the order of the players prop
sortedStats ==
    LET order == <<"p1", "p2">>
        all == [i \in 1..Len(order) |->
                   [id |-> order[i], stats |-> StatOf(playerStats, order[i])]]
        rows == SelectSeq(all, LAMBDA row : row.id \in DOMAIN playerStats)
    IN SortRows(rows, sortColumn, sortDirection)

(***************************************************************************)
(* Partners: the partnership fold of PartnersStatsTable                    *)
(***************************************************************************)
\* player1Id < player2Id on the ids of the model (string comparison)
IdOrder == <<"p1", "p2", "px">>
IdIndex(id) == CHOOSE i \in 1..Len(IdOrder) : IdOrder[i] = id
Less(a, b) == IdIndex(a) < IdIndex(b)

\* a mutant: the key keeps the order scorer, assister
normalizePair_Unsorted(player1Id, player2Id) ==
    <<player1Id, "-", player2Id>>

\* `${player1Id}-${player2Id}` with the smaller id first
normalizePair(player1Id, player2Id) ==
    IF Less(player1Id, player2Id)
    THEN <<player1Id, "-", player2Id>>
    ELSE <<player2Id, "-", player1Id>>

\* one callback of game.goals.forEach; pairMap is kept in insertion order
CountPair(pairMap, goal) ==
    IF goal.assisterId = NULL \/ goal.scorerId = NULL THEN pairMap
    ELSE
      LET pairKey == normalizePair(goal.scorerId, goal.assisterId)
          player1Id == IF Less(goal.scorerId, goal.assisterId)
                       THEN goal.scorerId ELSE goal.assisterId
          player2Id == IF Less(goal.scorerId, goal.assisterId)
                       THEN goal.assisterId ELSE goal.scorerId
      IN IF \E i \in 1..Len(pairMap) : pairMap[i].key = pairKey
         THEN [i \in 1..Len(pairMap) |->
                  IF pairMap[i].key = pairKey
                  THEN [pairMap[i] EXCEPT !.count = @ + 1]
                  ELSE pairMap[i]]
         ELSE Append(pairMap, [key |-> pairKey, player1Id |-> player1Id,
                               player2Id |-> player2Id, count |-> 1])

RECURSIVE CountPairs(_, _, _)
CountPairs(pairMap, gs, i) ==
    IF i > Len(gs) THEN pairMap
    ELSE CountPairs(CountPair(pairMap, gs[i]), gs, i + 1)

\* games.forEach of partnerStats: a game without a goal list is passed over
RECURSIVE PairMap(_, _, _)
PairMap(pairMap, gms, i) ==
    IF i > Len(gms) THEN pairMap
    ELSE IF ~IsSome(gms[i].goals) THEN PairMap(pairMap, gms, i + 1)
    ELSE PairMap(CountPairs(pairMap, Get(gms[i].goals), 1), gms, i + 1)

\* .sort((a, b) => b.contributions - a.contributions), a stable sort
RECURSIVE InsertByContributions(_, _)
InsertByContributions(sorted, pair) ==
    IF sorted = <<>> THEN <<pair>>
    ELSE IF Head(sorted).contributions >= pair.contributions
    THEN <<Head(sorted)>> \o InsertByContributions(Tail(sorted), pair)
    ELSE <<pair>> \o sorted

RECURSIVE SortPairs(_)
SortPairs(pairs) ==
    IF pairs = <<>> THEN <<>>
    ELSE InsertByContributions(SortPairs(SubSeq(pairs, 1, Len(pairs) - 1)),
                               pairs[Len(pairs)])

\* the useMemo body: rows of pairs whose players are both in the list
PartnerStats(ps, gms) ==
    LET pairMap == PairMap(<<>>, gms, 1)
        pairs == [i \in 1..Len(pairMap) |->
                     [player1 |-> pairMap[i].player1Id,
                      player2 |-> pairMap[i].player2Id,
                      contributions |-> pairMap[i].count]]
    IN SortPairs(SelectSeq(pairs,
                   LAMBDA pair : pair.player1 \in ps /\ pair.player2 \in ps))

\* ---- the games the table is given ----
Assigned(p1, p2, px) ==
    [p \in AllIds |-> IF p = "p1" THEN p1 ELSE IF p = "p2" THEN p2 ELSE px]
AssignmentOptions ==
    {Absent, Some(EmptyTeams), Some(Assigned("color", NONE, NONE)),
     Some(Assigned("color", "white", NONE)),
     Some(Assigned("white", NONE, "color"))}
GoalAlphabet ==
    {[scorerId |-> "p1", assisterId |-> NULL, team |-> "color"],
     [scorerId |-> "p2", assisterId |-> "p1", team |-> "white"],
     [scorerId |-> DeletedId, assisterId |-> "p2", team |-> NULL]}
GoalOptions ==
    {Absent} \cup
    {Some(gs) : gs \in UNION {[1..n -> GoalAlphabet] : n \in 0..MaxStatGoals}}

\* the games prop gains a game, created after the ones it holds
AddGame(teamAssignments, gs) ==
    LET game == [teamAssignments |-> teamAssignments, goals |-> gs,
                 createdAt |-> toISOString(Len(games) + 1)]
    IN /\ Len(games) < MaxStatGames
       /\ games' = Append(games, game)
       /\ playerStats' = PlayerStats(players, Append(games, game))
       /\ partnerStats' = PartnerStats(players, Append(games, game))
       /\ UNCHANGED <<players, sortColumn, sortDirection, ledgerVars,
                    storeVars>>

\* the players prop loses a player deleted from the player store
RemovePlayer(p) ==
    /\ p \in players
    /\ players' = players \ {p}
    /\ playerStats' = PlayerStats(players \ {p}, games)
    /\ partnerStats' = PartnerStats(players \ {p}, games)
    /\ UNCHANGED <<games, sortColumn, sortDirection, ledgerVars, storeVars>>

\* the players prop gains a player
AddPlayer(p) ==
    /\ p \notin players
    /\ players' = players \cup {p}
    /\ playerStats' = PlayerStats(players \cup {p}, games)
    /\ partnerStats' = PartnerStats(players \cup {p}, games)
    /\ UNCHANGED <<games, sortColumn, sortDirection, ledgerVars, storeVars>>

\* the player who may leave and rejoin the player list
Leaver == "p2"

StatsInit ==
    /\ LedgerIdle /\ server = NewRow(1, 0) /\ StoreIdle
    /\ players = PlayerIds /\ games = <<>>
    /\ playerStats = PlayerStats(PlayerIds, <<>>)
    /\ partnerStats = PartnerStats(PlayerIds, <<>>)
    /\ sortColumn = "points" /\ sortDirection = "desc"

StatsNext ==
    \/ \E ta \in AssignmentOptions, gs \in GoalOptions : AddGame(ta, gs)
    \/ RemovePlayer(Leaver)
    \/ AddPlayer(Leaver)

StatsSpec == StatsInit /\ [][StatsNext]_vars

(***************************************************************************)
(* Ledger claims                                                           *)
(***************************************************************************)
EntriesOf(tc, p) == SelectSeq(tc, LAMBDA e : e.player = p)
SwapsOf(tc, p) == SelectSeq(tc, LAMBDA e : e.player = p /\ e.type = "swap")
Other(t) == CHOOSE u \in Teams : u # t

\* the swap step appended exactly one swap entry A -> B of player p
SwapLogged(p, A, B) ==
    /\ Len(teamChanges) = Len(prev.changes) + 1
    /\ SubSeq(teamChanges, 1, Len(prev.changes)) = prev.changes
    /\ LET e == teamChanges[Len(teamChanges)]
       IN e.player = p /\ e.type = "swap" /\ e.previousTeam = A /\ e.newTeam = B

\* the swap step deleted the most recent swap entry of p and added nothing
SwapCoalesced(p) ==
    /\ Len(teamChanges) = Len(prev.changes) - 1
    /\ SwapsOf(teamChanges, p)
         = SubSeq(SwapsOf(prev.changes, p), 1, Len(SwapsOf(prev.changes, p)) - 1)
    /\ \A q \in PlayerIds \ {p} :
         EntriesOf(teamChanges, q) = EntriesOf(prev.changes, q)
    /\ SelectSeq(teamChanges, LAMBDA e : e.type = "leave")
         = SelectSeq(prev.changes, LAMBDA e : e.type = "leave")

\* the swap that reverts p's most recent swap entry, seen from before the step
RevertsLastSwap(p, B) ==
    LET sw == SwapsOf(prev.changes, p)
    IN Len(sw) > 0 /\ sw[Len(sw)].previousTeam = B

LastSwapTime(p) ==
    LET sw == SwapsOf(prev.changes, p) IN sw[Len(sw)].timestamp

SwapOutcome(p, coalesce) ==
    LET A == prev.teams[p]
        B == Other(A)
    IN /\ playerTeams[p] = B
       /\ IF coalesce THEN SwapCoalesced(p) ELSE SwapLogged(p, A, B)

\* C1 as stated: a swap of player p from A to B logs a swap entry A -> B,
\* unless B is the previousTeam of p's most recent swap entry and p has scored
\* no goal after that entry's timestamp; then that entry is deleted and nothing
\* is added.  Goals of other players do not prevent the coalescing.
C1_AsStated ==
    lastOp.op = "swap" =>
        LET p == lastOp.player
        IN SwapOutcome(p,
              /\ RevertsLastSwap(p, Other(prev.teams[p]))
              /\ ~\E i \in 1..Len(prev.goals) :
                     /\ prev.goals[i].scorer = p
                     /\ prev.goals[i].timestamp > LastSwapTime(p))

\* C1 amended: a swap of player p from A to B logs a swap entry A -> B, unless
\* B is the previousTeam of p's most recent swap entry and no goal of any
\* player has a timestamp after that entry's; then that entry is deleted and
\* nothing is added.
C1_SwapCoalescing ==
    lastOp.op = "swap" =>
        LET p == lastOp.player
        IN SwapOutcome(p,
              /\ RevertsLastSwap(p, Other(prev.teams[p]))
              /\ ~\E i \in 1..Len(prev.goals) :
                     prev.goals[i].timestamp > LastSwapTime(p))

\* a swap coalesced although the goal list is not empty
C1_Witness ==
    /\ lastOp.op = "swap"
    /\ Len(prev.goals) > 0
    /\ Len(SwapsOf(prev.changes, lastOp.player)) = 1
    /\ Len(SwapsOf(teamChanges, lastOp.player)) = 0

AssignmentOps == {"swap", "assign", "remove", "leave", "return"}

\* C3: recordGoal stores the scorer's team assignment of that moment in the
\* goal, and no swap, assign, remove, leave or return changes a recorded goal.
C3_GoalTeamCaptured ==
    /\ lastOp.op = "recordGoal" =>
          /\ Len(goals) = Len(prev.goals) + 1
          /\ SubSeq(goals, 1, Len(prev.goals)) = prev.goals
          /\ goals[Len(goals)].scorer = lastOp.player
          /\ goals[Len(goals)].team = prev.teams[lastOp.player]
          /\ goals[Len(goals)].timestamp = now
    /\ lastOp.op \in AssignmentOps => goals = prev.goals

\* a scorer changed sides after the goal and the goal kept its team
C3_Witness ==
    /\ lastOp.op = "swap"
    /\ \E i \in 1..Len(goals) :
          /\ goals[i].scorer = lastOp.player
          /\ goals[i].team = prev.teams[lastOp.player]
          /\ goals[i].team # playerTeams[lastOp.player]

\* C4 as stated: an edit that keeps the scorer and changes only the assister
\* and/or the timestamp leaves the goal's team as it was recorded.
C4_EditKeepsTeam ==
    lastOp.op \in {"editAssister", "goalTime"} =>
        LET i == lastOp.index
        IN goals[i].scorer = prev.goals[i].scorer
              => goals[i].team = prev.goals[i].team

MutationOps == AssignmentOps \cup
    {"recordGoal", "goalTime", "editAssister", "confirmDeleteGoal",
     "changeTime", "confirmDeleteChange"}

\* C5: every mutation cancels the pending autosave and schedules one 500ms
\* later, so at most one timer is pending, it carries the current state, and
\* each scheduling leads to at most one write, issued no earlier than 500ms
\* after the last mutation with the state after that mutation.
C5_DebouncedAutosave ==
    /\ Cardinality(timers) <= 1
    /\ \A t \in timers :
          /\ t.due = lastSched + 500
          /\ t.teams = playerTeams /\ t.goals = goals /\ t.changes = teamChanges
    /\ saves <= 1
    /\ lastOp.op \in MutationOps =>
          /\ lastSched = now /\ saves = 0 /\ Cardinality(timers) = 1
    /\ lastOp.op = "save" =>
          /\ saves = 1 /\ timers = {}
          /\ now >= lastSched + 500
          /\ Get(lastSaved).teamAssignments = Some(playerTeams)
          /\ Len(Get(Get(lastSaved).goals)) = Len(goals)
          /\ \A i \in 1..Len(goals) :
                LET g == Get(Get(lastSaved).goals)[i]
                IN /\ g.scorerId = goals[i].scorer
                   /\ g.assisterId = goals[i].assister
                   /\ g.team = goals[i].team
                   /\ g.timestamp.iso = goals[i].timestamp

\* two mutations inside one debounce window were followed by the first write
C5_Witness ==
    /\ lastOp.op = "save"
    /\ nwrites = 1
    /\ Len(teamChanges) >= 2

(***************************************************************************)
(* Game store claims                                                       *)
(***************************************************************************)
\* what getGame(id) answers for a stored row
Fetched(id) == ParsedGame(Get(store[id]))

\* C6 as stated: a createGame by an admin succeeds and the new game's number
\* is a positive integer that no existing game has.
C6_CreateAssignsFreshNumber ==
    (lastReq.op = "create" /\ lastReq.user \in Admins) =>
        /\ lastReq.status = 201
        /\ IsSome(lastReq.body)
        /\ IsSome(Get(lastReq.body).gameNumber)
        /\ Get(Get(lastReq.body).gameNumber) > 0
        /\ \A i \in Rows(prevStore) :
              Get(prevStore[i]).gameNumber # Get(lastReq.body).gameNumber

\* C7 as stated: after a successful updateGame(id, partial), getGame(id)
\* returns the submitted value of every field present in partial:
\* teamAssignments, goals, teamChanges, createdAt and gameNumber.
C7_UpdatePersistsEveryField ==
    (lastReq.op = "update" /\ lastReq.status = 200) =>
        LET d == Get(lastReq.data)
            g == Fetched(lastReq.id)
        IN /\ IsSome(d.teamAssignments)
                => g.teamAssignments = Get(d.teamAssignments)
           /\ IsSome(d.goals) => g.goals = Get(d.goals)
           /\ IsSome(d.createdAt) => g.createdAt = Get(d.createdAt)
           /\ IsSome(d.gameNumber) => g.gameNumber = d.gameNumber
           /\ IsSome(d.teamChanges) =>
                 /\ IsSome(g.teamChanges)
                 /\ Get(g.teamChanges) = Get(d.teamChanges)

FullState(d) ==
    IsSome(d.teamAssignments) /\ IsSome(d.goals) /\ ~IsSome(d.gameNumber)

\* C8: a full-state write of an editor to an existing game is answered 200
\* whatever was written before, and the stored teamAssignments and goals are
\* then exactly those of this write.
C8_LastWriteWins ==
    (/\ lastReq.op = "update" /\ lastReq.user \in Admins
     /\ FullState(Get(lastReq.data)) /\ IsSome(prevStore[lastReq.id])) =>
        /\ lastReq.status = 200
        /\ Fetched(lastReq.id).teamAssignments
              = Get(Get(lastReq.data).teamAssignments)
        /\ Fetched(lastReq.id).goals = Get(Get(lastReq.data).goals)

\* the second editor's write replaced what the first editor had stored
C8_Witness ==
    /\ lastReq.op = "update" /\ lastReq.user = "admin2" /\ lastReq.status = 200
    /\ Get(lastReq.data) = FullStateB
    /\ IsSome(prevStore[lastReq.id])
    /\ ParsedGame(Get(prevStore[lastReq.id])).teamAssignments = TeamsA
    /\ ParsedGame(Get(prevStore[lastReq.id])).goals = GoalsA
    /\ Fetched(lastReq.id).teamAssignments = TeamsB
    /\ Fetched(lastReq.id).goals = <<>>

(***************************************************************************)
(* Overall stats claims                                                    *)
(***************************************************************************)
\* the game the table was given last and the table without it
LastGame == games[Len(games)]
Before == PlayerStats(players, SubSeq(games, 1, Len(games) - 1))
Was(p) == StatOf(Before, p)
Is(p) == StatOf(playerStats, p)
Bit(b) == IF b THEN 1 ELSE 0
Rival(team) == IF team = "color" THEN "white" ELSE "color"

\* C9: a counted game gives every listed player with a team assignment in
\* it exactly one game played and exactly one of win, loss, tie: a tie when
\* both sides have as many goals (0-0 included), else a win when the
\* player's side has more goals and a loss when it has fewer.
C9_OneResultPerGame ==
    (games # <<>> /\ IsSome(LastGame.teamAssignments)
                  /\ IsSome(LastGame.goals)) =>
        \A p \in players :
            LET team == Get(LastGame.teamAssignments)[p]
                mine == TeamGoals(Get(LastGame.goals), team)
                theirs == TeamGoals(Get(LastGame.goals), Rival(team))
            IN team # NONE =>
                  /\ Is(p).gamesPlayed = Was(p).gamesPlayed + 1
                  /\ Is(p).ties = Was(p).ties + Bit(mine = theirs)
                  /\ Is(p).wins = Was(p).wins + Bit(mine > theirs)
                  /\ Is(p).losses = Was(p).losses + Bit(mine < theirs)

\* a goalless game is a tie for a player who had won the game before
C9_Witness ==
    /\ Len(games) = 2
    /\ LastGame.teamAssignments = Some(Assigned("color", "white", NONE))
    /\ LastGame.goals = Some(<<>>)
    /\ Was("p1").wins = 1 /\ Was("p2").losses = 1
    /\ Is("p1").gamesPlayed = 2 /\ Is("p1").ties = 1 /\ Is("p1").wins = 1
    /\ Is("p2").gamesPlayed = 2 /\ Is("p2").ties = 1 /\ Is("p2").losses = 1

Untouched(p) ==
    /\ Is(p).gamesPlayed = Was(p).gamesPlayed
    /\ Is(p).wins = Was(p).wins
    /\ Is(p).losses = Was(p).losses
    /\ Is(p).ties = Was(p).ties
    /\ Is(p).goals = Was(p).goals
    /\ Is(p).assists = Was(p).assists
    /\ Is(p).form = Was(p).form

\* C10 as stated: a game whose assignment map or goal list is missing or
\* empty changes no player's gamesPlayed, wins, losses, ties, goals, assists
\* or form.
C10_SkipsMissingOrEmpty ==
    (/\ games # <<>>
     /\ \/ LastGame.teamAssignments \in {Absent, Some(EmptyTeams)}
        \/ LastGame.goals \in {Absent, Some(<<>>)}) =>
        \A p \in players : Untouched(p)

\* C10: a game whose assignment map or goal list is missing (undefined)
\* changes no player's gamesPlayed, wins, losses, ties, goals, assists or
\* form.
C10_SkipsMissing ==
    (/\ games # <<>>
     /\ \/ LastGame.teamAssignments = Absent
        \/ LastGame.goals = Absent) =>
        \A p \in players : Untouched(p)

\* a game with teams but no goal list leaves a player's earlier win alone
C10_Witness ==
    /\ Len(games) = 2
    /\ LastGame.teamAssignments = Some(Assigned("color", "white", NONE))
    /\ LastGame.goals = Absent
    /\ Was("p1").wins = 1 /\ Was("p1").form = <<"W">>
    /\ Is("p1").gamesPlayed = 1 /\ Is("p1").ties = 0
    /\ Is("p1").form = <<"W">>

\* goals of the last game that name p as scorer / as assister
ScoredBy(p) ==
    Cardinality({i \in DOMAIN Get(LastGame.goals) :
                    Get(LastGame.goals)[i].scorerId = p})
AssistedBy(p) ==
    Cardinality({i \in DOMAIN Get(LastGame.goals) :
                    Get(LastGame.goals)[i].assisterId = p})
Counted == games # <<>> /\ IsSome(LastGame.teamAssignments)
                        /\ IsSome(LastGame.goals)

\* C11 as stated: a counted game credits every listed player one goal per
\* goal that names the player as scorer and one assist per goal that names
\* the player as assister, also when the goal's scorer is not in the list.
C11_EveryListedReferenceCredited ==
    Counted =>
        \A p \in players :
            /\ Is(p).goals = Was(p).goals + ScoredBy(p)
            /\ Is(p).assists = Was(p).assists + AssistedBy(p)

\* p has a team assignment in the last game
AssignedIn(p) == Get(LastGame.teamAssignments)[p] # NONE

\* C12: a game raises a listed player's gamesPlayed by exactly 1 if it is
\* counted and the player has a team assignment in it or is credited a goal
\* or an assist from it, and by 0 otherwise, however many goals and assists
\* the player has in it; a game that credits a goal or assist also credits
\* the game played.
C12_OneGamePlayedPerGame ==
    games # <<>> =>
        \A p \in players :
            LET was == Was(p)
                is == Is(p)
                credited == is.goals > was.goals \/ is.assists > was.assists
                played == IF Counted THEN AssignedIn(p) \/ credited ELSE FALSE
            IN /\ is.gamesPlayed = was.gamesPlayed + Bit(played)
               /\ credited => is.gamesPlayed = was.gamesPlayed + 1

\* an unassigned player scored one goal and assisted another in one game
C12_Witness ==
    /\ games # <<>> /\ Counted
    /\ "p1" \in players /\ ~AssignedIn("p1")
    /\ Is("p1").goals = Was("p1").goals + 1
    /\ Is("p1").assists = Was("p1").assists + 1
    /\ Is("p1").gamesPlayed = Was("p1").gamesPlayed + 1

(***************************************************************************)
(* Form: the stats fold over a longer list of games                        *)
(***************************************************************************)
ColorGoal == [scorerId |-> "p1", assisterId |-> NULL, team |-> "color"]
WhiteGoal == [scorerId |-> "p2", assisterId |-> "p1", team |-> "white"]
\* what a game of the list may hold: teams and goals as the ledger saved them
FormGames ==
    {[teamAssignments |-> Some(Assigned("color", "white", NONE)),
      goals |-> Some(<<ColorGoal>>)],
     [teamAssignments |-> Some(Assigned("color", "white", NONE)),
      goals |-> Some(<<WhiteGoal>>)],
     [teamAssignments |-> Some(Assigned("color", NONE, NONE)),
      goals |-> Some(<<>>)],
     [teamAssignments |-> Some(Assigned(NONE, "white", NONE)),
      goals |-> Some(<<ColorGoal>>)],
     [teamAssignments |-> Some(Assigned("color", "white", NONE)),
      goals |-> Absent]}

Dated(g, t) ==
    [teamAssignments |-> g.teamAssignments, goals |-> g.goals,
     createdAt |-> toISOString(t)]
NewestFirst(gms) ==
    \A i \in 1..(Len(gms) - 1) :
        ParseDate(gms[i].createdAt) > ParseDate(gms[i + 1].createdAt)
OldestFirst(gms) ==
    \A i \in 1..(Len(gms) - 1) :
        ParseDate(gms[i].createdAt) < ParseDate(gms[i + 1].createdAt)

\* GET /api/games answers the list newest first: a new game comes first
GameListed(g) ==
    /\ Len(games) < MaxFormGames
    /\ NewestFirst(games)
    /\ games' = <<Dated(g, Len(games) + 1)>> \o games
    /\ playerStats' = PlayerStats(players, games')
    /\ partnerStats' = PartnerStats(players, games')
    /\ UNCHANGED <<players, sortColumn, sortDirection, ledgerVars,
                    storeVars>>

\* a parent that keeps its list in creation order: a new game comes last
GameAppended(g) ==
    /\ Len(games) < MaxFormGames
    /\ OldestFirst(games)
    /\ games' = Append(games, Dated(g, Len(games) + 1))
    /\ playerStats' = PlayerStats(players, games')
    /\ partnerStats' = PartnerStats(players, games')
    /\ UNCHANGED <<players, sortColumn, sortDirection, ledgerVars,
                    storeVars>>

FormNext ==
    \/ \E g \in FormGames : GameListed(g)
    \/ \E g \in FormGames : GameAppended(g)

FormSpec == StatsInit /\ [][FormNext]_vars

\* the games of the list in which p has a result, oldest first
GameOf(d) == games[CHOOSE i \in 1..Len(games) : ParseDate(games[i].createdAt) = d]
HasResult(g, p) ==
    /\ IsSome(g.teamAssignments) /\ IsSome(g.goals)
    /\ Get(g.teamAssignments)[p] # NONE
ResultGames(p) ==
    SelectSeq([d \in 1..Len(games) |-> GameOf(d)], LAMBDA g : HasResult(g, p))
LastFive(s) == SubSeq(s, Max(1, Len(s) - 4), Len(s))
Outcome(g, p) ==
    LET team == Get(g.teamAssignments)[p]
        mine == TeamGoals(Get(g.goals), team)
        theirs == TeamGoals(Get(g.goals), Rival(team))
    IN IF mine = theirs THEN "T" ELSE IF mine > theirs THEN "W" ELSE "L"
ExpectedForm(p) ==
    LET recent == LastFive(ResultGames(p))
    IN [i \in 1..Len(recent) |-> Outcome(recent[i], p)]

\* C13: a player's form lists the results of the at most 5 most recent
\* counted games (by createdAt) in which the player has a team assignment,
\* oldest first, each result a tie when both sides have as many goals, else
\* a win when the player's side has more and a loss when it has fewer;
\* formWins is the number of W minus the number of L of that list.
C13_FormIsLastFive ==
    \A p \in players :
        /\ Is(p).form = ExpectedForm(p)
        /\ Is(p).formWins
              = Count(ExpectedForm(p), "W") - Count(ExpectedForm(p), "L")

\* six games with a result for p1: the oldest, a win, is not in the form
C13_Witness ==
    /\ Len(ResultGames("p1")) = 6
    /\ Outcome(ResultGames("p1")[1], "p1") = "W"
    /\ Is("p1").wins = 1
    /\ Is("p1").form = <<"L", "L", "L", "T", "L">>
    /\ Is("p1").formWins = 0 - 4

(***************************************************************************)
(* Partners: the fold over games with assisted goals                       *)
(***************************************************************************)
Assisted(scorer, assister) ==
    [scorerId |-> scorer, assisterId |-> assister, team |-> "color"]
PartnerGoals ==
    {Assisted("p1", "p2"), Assisted("p2", "p1"), Assisted("p1", NULL),
     Assisted(DeletedId, "p1"), Assisted("p1", "p1")}
PartnerGoalOptions ==
    {Absent} \cup
    {Some(gs) : gs \in UNION {[1..n -> PartnerGoals] : n \in 0..MaxStatGoals}}

PartnerNext ==
    \/ \E gs \in PartnerGoalOptions : AddGame(Some(EmptyTeams), gs)
    \/ RemovePlayer(Leaver)
    \/ AddPlayer(Leaver)

PartnerSpec == StatsInit /\ [][PartnerNext]_vars

\* the goals of all games, as (game, goal) positions
GoalPositions ==
    UNION {{<<i, j>> : j \in DOMAIN Get(games[i].goals)} :
              i \in {k \in 1..Len(games) : IsSome(games[k].goals)}}
GoalAt(pos) == Get(games[pos[1]].goals)[pos[2]]
\* goals in which one of A, B scored and the other assisted
PairGoals(A, B) ==
    Cardinality({pos \in GoalPositions :
        \/ GoalAt(pos).scorerId = A /\ GoalAt(pos).assisterId = B
        \/ GoalAt(pos).scorerId = B /\ GoalAt(pos).assisterId = A})
RowsOf(A, B) ==
    {k \in 1..Len(partnerStats) :
        {partnerStats[k].player1, partnerStats[k].player2} = {A, B}}

\* C14: normalizePair gives both orders of a pair the same key; the table
\* has exactly one row for each pair {A, B} of listed players with a goal
\* that one scored and the other assisted, whose contributions are the
\* number of those goals over all games, and no other row; goals with a
\* null assister count for no row.
C14_PartnerContributions ==
    /\ \A a \in AllIds, b \in AllIds : normalizePair(a, b) = normalizePair(b, a)
    /\ \A A \in players, B \in players :
          IF PairGoals(A, B) > 0
          THEN /\ Cardinality(RowsOf(A, B)) = 1
               /\ \A k \in RowsOf(A, B) :
                     partnerStats[k].contributions = PairGoals(A, B)
          ELSE RowsOf(A, B) = {}
    /\ \A k \in 1..Len(partnerStats) :
          partnerStats[k].player1 \in players /\ partnerStats[k].player2 \in players

\* p1 assisted p2 once and p2 assisted p1 once: one row with 2 contributions,
\* and p1's unassisted goal is in no row
C14_Witness ==
    /\ \E pos \in GoalPositions : GoalAt(pos) = Assisted("p1", "p2")
    /\ \E pos \in GoalPositions : GoalAt(pos) = Assisted("p2", "p1")
    /\ \E pos \in GoalPositions : GoalAt(pos) = Assisted("p1", NULL)
    /\ Len(partnerStats) = 1
    /\ partnerStats[1] = [player1 |-> "p1", player2 |-> "p2", contributions |-> 2]

(***************************************************************************)
(* Ledger claims: scenarios and frames                                     *)
(***************************************************************************)
\* the second swap of the pair has just run
SwappedBack == swapScenario.phase = "done" /\ lastOp.op = "swap"
BothSwapsLogged(p) ==
    /\ Len(EntriesOf(teamChanges, p)) = 2
    /\ EntriesOf(teamChanges, p)[1] = EntriesOf(prev.changes, p)[1]
    /\ EntriesOf(teamChanges, p)[2].type = "swap"
    /\ EntriesOf(teamChanges, p)[2].previousTeam = prev.teams[p]
    /\ EntriesOf(teamChanges, p)[2].newTeam = playerTeams[p]

C15_WitnessGoal ==
    /\ SwappedBack /\ swapScenario.goal
    /\ BothSwapsLogged(lastOp.player)

\* C16: the assister stored by recordGoal or by the assister step of editGoal
\* is null or a player other than the scorer who, at that moment, is assigned
\* to the scorer's team; so no goal of the ledger has its scorer as assister.
C16_AssisterIsTeammate ==
    /\ lastOp.op \in {"recordGoal", "editAssister"} =>
          LET g == goals[lastOp.index]
          IN \/ g.assister = NULL
             \/ /\ g.assister # g.scorer
                /\ prev.teams[g.scorer] \in Teams
                /\ prev.teams[g.assister] = prev.teams[g.scorer]
    /\ \A i \in 1..Len(goals) : goals[i].assister # goals[i].scorer

\* an edit gave a goal without assister a teammate of its scorer as assister
C16_Witness ==
    /\ lastOp.op = "editAssister"
    /\ prev.goals[lastOp.index].assister = NULL
    /\ goals[lastOp.index].assister \in PlayerIds
    /\ goals[lastOp.index].scorer = prev.goals[lastOp.index].scorer
    /\ playerTeams[goals[lastOp.index].assister]
          = playerTeams[goals[lastOp.index].scorer]

\* C17: leave on an assigned player appends exactly one leave entry that
\* carries the player's current team, marks the player as left, and leaves
\* the team assignments and the goal list as they were.
C17_LeaveLogsCurrentTeam ==
    lastOp.op = "leave" =>
        /\ prev.teams[lastOp.player] \in Teams
        /\ Len(teamChanges) = Len(prev.changes) + 1
        /\ SubSeq(teamChanges, 1, Len(prev.changes)) = prev.changes
        /\ LET e == teamChanges[Len(teamChanges)]
           IN /\ e.player = lastOp.player
              /\ e.type = "leave"
              /\ e.team = prev.teams[lastOp.player]
              /\ e.timestamp = now
        /\ leftPlayers = prev.left \cup {lastOp.player}
        /\ playerTeams = prev.teams
        /\ goals = prev.goals

\* a leave of a player whose team had already been swapped, with a goal
\* on the ledger
C17_Witness ==
    /\ lastOp.op = "leave"
    /\ Len(goals) > 0
    /\ Len(teamChanges) = 2
    /\ teamChanges[1].type = "swap"
    /\ teamChanges[1].player = lastOp.player
    /\ lastOp.player \in leftPlayers

\* C18: assign and remove are not logged: they change only the player's own
\* team assignment (assign also makes the player active again) and leave the
\* TeamChange log and the goal list as they were.
C18_RawEditsNotLogged ==
    /\ lastOp.op \in {"assign", "remove"} =>
          /\ teamChanges = prev.changes
          /\ goals = prev.goals
          /\ \A q \in DOMAIN playerTeams :
                q # lastOp.player => playerTeams[q] = prev.teams[q]
          /\ playerTeams[lastOp.player] # prev.teams[lastOp.player]
    /\ lastOp.op = "assign" =>
          /\ leftPlayers = prev.left \ {lastOp.player}
          /\ playerTeams[lastOp.player] \in Teams \cup {NONE}
    /\ lastOp.op = "remove" =>
          /\ leftPlayers = prev.left
          /\ playerTeams[lastOp.player] = NONE

\* a player who had left, with a leave entry and a goal on the ledger, is
\* assigned to a team again
C18_Witness ==
    /\ lastOp.op = "assign"
    /\ lastOp.player \in prev.left
    /\ playerTeams[lastOp.player] \in Teams
    /\ Len(teamChanges) > 0
    /\ Len(goals) > 0

\* an assigned player is removed while the log has an entry of the player
C18_WitnessRemove ==
    /\ lastOp.op = "remove"
    /\ prev.teams[lastOp.player] \in Teams
    /\ Len(EntriesOf(teamChanges, lastOp.player)) > 0

\* C19: the displayed score of each side is the number of goals on the
\* ledger whose team is that side; the two scores add up to the number of
\* goals with a team, and a goal without a team counts for neither side.
C19_ScoreCountsGoalTeams ==
    LET Ix(P(_)) == {i \in 1..Len(goals) : P(goals[i])}
        OnColor(g) == g.team = "color"
        OnWhite(g) == g.team = "white"
        HasTeam(g) == g.team # NULL
        Without(i) == SubSeq(goals, 1, i - 1) \o SubSeq(goals, i + 1, Len(goals))
    IN /\ Score(goals, "color") = Cardinality(Ix(OnColor))
       /\ Score(goals, "white") = Cardinality(Ix(OnWhite))
       /\ Score(goals, "color") + Score(goals, "white") = Cardinality(Ix(HasTeam))
       /\ \A i \in 1..Len(goals) :
             goals[i].team = NULL =>
                \A side \in Teams : Score(Without(i), side) = Score(goals, side)

\* a goal of each kind on the ledger, the scorer of the color goal now
\* playing for white
C19_Witness ==
    /\ Score(goals, "color") = 1
    /\ Len(goals) = 2
    /\ \E i \in 1..2 : goals[i].team = "color" /\ playerTeams[goals[i].scorer] = "white"

C19_WitnessNoTeam ==
    \E i \in 1..Len(goals) : goals[i].team = NULL

\* C20: a failed autosave write is only logged: the step that receives the
\* failure leaves the team assignments, the left flags, the goals, the team
\* changes, the error state and the pending autosave as they were, and a
\* mutation that follows it still schedules a write of the state it produces.
C20_SilentFailedWrite ==
    [][/\ lastOp'.op = "saveFailed" =>
             /\ playerTeams' = playerTeams
             /\ leftPlayers' = leftPlayers
             /\ goals' = goals
             /\ teamChanges' = teamChanges
             /\ error' = error
             /\ timers' = timers
       /\ lastOp.op = "saveFailed" /\ lastOp'.op \in MutationOps =>
             timers' = {Timer(now', playerTeams', goals', teamChanges')}]_vars

\* the write of a ledger with a goal and a team change failed, and the
\* stored game still lacks them
C20_Witness ==
    /\ lastOp.op = "saveFailed"
    /\ Len(goals) > 0
    /\ Len(teamChanges) > 0
    /\ ~error
    /\ nwrites = 1
    /\ server \in InitialRows
    /\ server.goals # Some(JSONStringify(Get(Get(lastSaved).goals)))

\* no mutation directly follows a failed write (expected to be violated)
C20_NoMutationAfterFailure ==
    [][~(lastOp.op = "saveFailed" /\ lastOp'.op \in MutationOps)]_vars

(***************************************************************************)
(* Game store claims: rejected requests                                    *)
(***************************************************************************)
Mutations == {"create", "update", "delete"}

\* C21: a createGame, updateGame or deleteGame request without a session is
\* answered 401 and one of a signed-in user who is not an admin 403, and in
\* both cases the stored games are exactly as before the request.
C21_MutationsAdminOnly ==
    (lastReq.op \in Mutations /\ lastReq.user \notin Admins) =>
        /\ lastReq.status = IF lastReq.user = "anon" THEN 401 ELSE 403
        /\ ~IsSome(lastReq.body)
        /\ store = prevStore

\* a signed-in non-admin sent a valid full-state update of a stored game
C21_Witness ==
    /\ lastReq.op = "update" /\ lastReq.user = "regular"
    /\ lastReq.status = 403
    /\ Get(lastReq.data) = FullStateA
    /\ IsSome(store[lastReq.id])
    /\ Fetched(lastReq.id).teamAssignments # TeamsA

\* an anonymous caller asked to delete a stored game
C21_WitnessAnon ==
    /\ lastReq.op = "delete" /\ lastReq.user = "anon"
    /\ lastReq.status = 401
    /\ IsSome(store[lastReq.id])

\* the body carries a game number that is not a positive integer
InvalidPayload(data) == IsSome(data.gameNumber) /\ Get(data.gameNumber) <= 0

\* C22: a rejected request leaves the store unchanged: an admin's update with
\* an invalid body is answered 400 whether or not the id is stored, and a
\* get, update or delete of an id that matches no stored game is answered
\* 404; in each case no game is created or modified.
C22_RejectedLeavesStore ==
    /\ lastReq.status \notin {0, 200, 201, 204} => store = prevStore
    /\ lastReq.op = "get" => store = prevStore
    /\ (lastReq.op = "update" /\ lastReq.user \in Admins
        /\ InvalidPayload(Get(lastReq.data))) => lastReq.status = 400
    /\ (lastReq.op = "update" /\ lastReq.user \in Admins
        /\ ~InvalidPayload(Get(lastReq.data))
        /\ ~IsSome(prevStore[lastReq.id])) => lastReq.status = 404
    /\ (lastReq.op = "delete" /\ lastReq.user \in Admins
        /\ ~IsSome(prevStore[lastReq.id])) => lastReq.status = 404
    /\ (lastReq.op = "get" /\ lastReq.user # "anon"
        /\ ~IsSome(prevStore[lastReq.id])) => lastReq.status = 404

\* an admin's edit form with game number 0 for a stored game was rejected
C22_Witness ==
    /\ lastReq.op = "update" /\ lastReq.user = "admin1"
    /\ lastReq.status = 400
    /\ InvalidPayload(Get(lastReq.data))
    /\ IsSome(store[lastReq.id])

\* an admin's full-state update of an id deleted earlier was answered 404
C22_WitnessStale ==
    /\ lastReq.op = "update" /\ lastReq.user \in Admins
    /\ lastReq.status = 404
    /\ lastReq.id < nextId
    /\ FullState(Get(lastReq.data))

(***************************************************************************)
(* Stats claims: points and table order                                    *)
(***************************************************************************)
\* C23: every row has points = 3*wins + ties, and pointsPerGame (in
\* hundredths) is points / gamesPlayed rounded to the nearest hundredth, a
\* half rounded up; a player without a game has pointsPerGame 0; 2 wins, 1
\* tie and 1 loss over 4 games give 7 points and 1.75 points per game.
C23_PointsAndPointsPerGame ==
    /\ \A p \in DOMAIN playerStats :
          LET s == playerStats[p]
              e == s.pointsPerGame * s.gamesPlayed - 100 * s.points
          IN /\ s.points = 3 * s.wins + s.ties
             /\ s.gamesPlayed > 0
             /\ 2 * e <= s.gamesPlayed
             /\ 2 * e > 0 - s.gamesPlayed
             /\ (s.wins = 2 /\ s.ties = 1 /\ s.losses = 1 /\ s.gamesPlayed = 4)
                   => s.points = 7 /\ s.pointsPerGame = 175
    /\ Totals(InitialStats).points = 0
    /\ Totals(InitialStats).pointsPerGame = 0

\* p1 has 2 wins, 1 tie and 1 loss over 4 games
C23_Witness ==
    /\ "p1" \in DOMAIN playerStats
    /\ playerStats["p1"].wins = 2 /\ playerStats["p1"].ties = 1
    /\ playerStats["p1"].losses = 1 /\ playerStats["p1"].gamesPlayed = 4
    /\ playerStats["p1"].points = 7
    /\ playerStats["p1"].pointsPerGame = 175

\* a quotient that is rounded up: 2 points over 3 games
C23_WitnessRoundedUp ==
    \E p \in DOMAIN playerStats :
        /\ playerStats[p].points = 2 /\ playerStats[p].gamesPlayed = 3
        /\ playerStats[p].pointsPerGame = 67

(***************************************************************************)
(* Table order: the stats table under clicks on its column headers         *)
(***************************************************************************)
\* the games the table is given: a 1-1 tie, a game in which p2 only scores,
\* a loss of p2 alone, a win of both on one side, a win of p2 over p1
SortGames ==
    {[teamAssignments |-> Some(Assigned("color", "white", NONE)),
      goals |-> Some(<<[scorerId |-> "p1", assisterId |-> NULL, team |-> "color"],
                       [scorerId |-> "p2", assisterId |-> "p1", team |-> "white"]>>)],
     [teamAssignments |-> Some(Assigned("color", NONE, NONE)),
      goals |-> Some(<<[scorerId |-> "p2", assisterId |-> NULL, team |-> "white"]>>)],
     [teamAssignments |-> Some(Assigned(NONE, "white", NONE)),
      goals |-> Some(<<[scorerId |-> DeletedId, assisterId |-> NULL,
                        team |-> "color"]>>)],
     [teamAssignments |-> Some(Assigned("color", "color", NONE)),
      goals |-> Some(<<[scorerId |-> "p2", assisterId |-> "p1", team |-> "color"]>>)],
     [teamAssignments |-> Some(Assigned("color", "white", NONE)),
      goals |-> Some(<<[scorerId |-> DeletedId, assisterId |-> NULL,
                        team |-> "white"]>>)]}

\* a click on a column header
handleSort(column) ==
    /\ IF sortColumn = column
       THEN /\ sortDirection' = IF sortDirection = "asc" THEN "desc" ELSE "asc"
            /\ UNCHANGED sortColumn
       ELSE /\ sortColumn' = column
            /\ sortDirection' = "desc"
    /\ UNCHANGED <<players, games, playerStats, partnerStats, ledgerVars,
                   storeVars>>

SortNext ==
    \/ \E g \in SortGames : AddGame(g.teamAssignments, g.goals)
    \/ \E column \in {"points", "pointsPerGame", "gamesPlayed",
                       "goalInvolvements", "goals", "assists", "formWins"} :
          handleSort(column)

SortSpec == StatsInit /\ [][SortNext]_vars

\* k1 >= k2 in the lexicographic order of two key lists of one length
RECURSIVE LexGeq(_, _)
LexGeq(k1, k2) ==
    IF k1 = <<>> THEN TRUE
    ELSE IF Head(k1) # Head(k2) THEN Head(k1) > Head(k2)
    ELSE LexGeq(Tail(k1), Tail(k2))
PointsKeys(s) == <<s.points, s.pointsPerGame, s.goalInvolvements, s.goals>>
GoalsKeys(s) == <<s.goals, s.assists, s.points>>

\* C24: the table shows every row of the stats once; sorted by points,
\* descending (the default), any two rows are in descending order of points,
\* then pointsPerGame, then goalInvolvements, then goals; sorted by goals,
\* descending, in descending order of goals, then assists, then points.
C24_SortTieBreaks ==
    /\ Len(sortedStats) = Cardinality(DOMAIN playerStats)
    /\ \A p \in DOMAIN playerStats :
          \E i \in 1..Len(sortedStats) :
              sortedStats[i] = [id |-> p, stats |-> playerStats[p]]
    /\ (sortColumn = "points" /\ sortDirection = "desc") =>
          \A i, j \in 1..Len(sortedStats) :
              i < j => LexGeq(PointsKeys(sortedStats[i].stats),
                              PointsKeys(sortedStats[j].stats))
    /\ (sortColumn = "goals" /\ sortDirection = "desc") =>
          \A i, j \in 1..Len(sortedStats) :
              i < j => LexGeq(GoalsKeys(sortedStats[i].stats),
                              GoalsKeys(sortedStats[j].stats))

\* under the default order two rows tie on points, points per game and goal
\* involvements, and p2, who has more goals, comes first
C24_Witness ==
    /\ sortColumn = "points" /\ sortDirection = "desc"
    /\ Len(sortedStats) = 2
    /\ sortedStats[1].id = "p2"
    /\ sortedStats[1].stats.points = sortedStats[2].stats.points
    /\ sortedStats[1].stats.points > 0
    /\ sortedStats[1].stats.pointsPerGame = sortedStats[2].stats.pointsPerGame
    /\ sortedStats[1].stats.goalInvolvements
          = sortedStats[2].stats.goalInvolvements
    /\ sortedStats[1].stats.goals > sortedStats[2].stats.goals

\* sorted by goals, two rows tie on goals and assists, and p2, who has more
\* points, comes first
C24_WitnessGoals ==
    /\ sortColumn = "goals" /\ sortDirection = "desc"
    /\ Len(sortedStats) = 2
    /\ sortedStats[1].id = "p2"
    /\ sortedStats[1].stats.goals = sortedStats[2].stats.goals
    /\ sortedStats[1].stats.assists = sortedStats[2].stats.assists
    /\ sortedStats[1].stats.points > sortedStats[2].stats.points

\* points tie and the points per game decide
C24_WitnessPointsPerGame ==
    /\ sortColumn = "points" /\ sortDirection = "desc"
    /\ Len(sortedStats) = 2
    /\ sortedStats[1].stats.points = sortedStats[2].stats.points
    /\ sortedStats[1].stats.pointsPerGame > sortedStats[2].stats.pointsPerGame

(***************************************************************************)
(* Stats claims: one game end to end                                       *)
(***************************************************************************)
\* the game of the scenario: p1 on color, p2 on white, a color goal of p1
\* without an assist and a white goal of p2 assisted by p1
ScenarioPlayed ==
    /\ players = {"p1", "p2"}
    /\ Len(games) = 1
    /\ games[1].teamAssignments = Some(Assigned("color", "white", NONE))
    /\ games[1].goals = Some(<<ColorGoal, WhiteGoal>>)

\* C25: for players p1, p2 and that one game the result is a 1-1 tie: p1 has
\* gamesPlayed 1, ties 1, goals 1, assists 1, points 1; p2 has gamesPlayed 1,
\* ties 1, goals 1, assists 0, points 1; and the partners table has exactly
\* one row, {p1, p2} with contributions 1.
C25_OneGameEndToEnd ==
    ScenarioPlayed =>
        /\ TeamGoals(Get(games[1].goals), "color") = 1
        /\ TeamGoals(Get(games[1].goals), "white") = 1
        /\ DOMAIN playerStats = {"p1", "p2"}
        /\ \A p \in {"p1", "p2"} :
              /\ playerStats[p].gamesPlayed = 1
              /\ playerStats[p].ties = 1
              /\ playerStats[p].wins = 0 /\ playerStats[p].losses = 0
              /\ playerStats[p].goals = 1
              /\ playerStats[p].points = 1
        /\ playerStats["p1"].assists = 1
        /\ playerStats["p2"].assists = 0
        /\ Len(partnerStats) = 1
        /\ {partnerStats[1].player1, partnerStats[1].player2} = {"p1", "p2"}
        /\ partnerStats[1].contributions = 1

\* the scenario's game is the one game of the list and both tables have rows
C25_Witness ==
    /\ ScenarioPlayed
    /\ "p1" \in DOMAIN playerStats
    /\ partnerStats # <<>>

(***************************************************************************)
(* Ledger claims: the session and the stored game                          *)
(***************************************************************************)
\* C26 as stated: opening a game issues no write before a ledger mutation:
\* while no handler has changed the ledger no write is issued, and once the
\* load has failed the stored game is never changed.
C26_NoWriteWithoutMutation ==
    [][/\ pristine => lastOp'.op # "save"
       /\ error => server' = server]_vars

\* the second half of C26 alone: after a failed load the stored game keeps
\* its team assignments and goals
C26_FailedLoadKeepsStoredGame ==
    [][error => /\ server'.teamAssignments = server.teamAssignments
                /\ server'.goals = server.goals]_vars

\* every scheduled write was issued and every issued write was answered
Settled == ~loading /\ timers = {} /\ inflight = {} /\ nwrites > 0

\* the stored team assignments and goals are those of the local state
StoredIsLocal ==
    /\ ParsedGame(server).teamAssignments = playerTeams
    /\ ParsedGame(server).goals = GoalsData(goals)

\* C27 as stated: once the session has settled and no write was rejected,
\* the stored game holds the local team assignments and goals, in whatever
\* order the answers of overlapping writes arrived.
C27_EventuallyConsistent ==
    (Settled /\ ~writeFailed) => StoredIsLocal

\* when the answer that arrived last is that of the write issued last, the
\* settled session is consistent
C27_ConsistentWhenLastAnswerIsLatest ==
    (Settled /\ ~writeFailed /\ lastOp.op = "saved" /\ lastOp.index = nwrites)
        => StoredIsLocal

\* C28 as stated: after a successful load and while no handler has changed
\* the ledger, a write of the session that the store applies leaves the
\* stored goal list as it was, goals of players who are no longer in the
\* player list included.
C28_LoadSaveRoundTrip ==
    [][(pristine' /\ ~error /\ lastOp'.op = "saved") =>
          ParsedGame(server').goals = ParsedGame(server).goals]_vars

(***************************************************************************)
(* Ledger claims: the swap log and the assignments                         *)
(***************************************************************************)
\* the swap entries of every assigned player form a chain that ends at the
\* player's current team
LogConsistent(teams, tc) ==
    \A p \in PlayerIds :
        LET swaps == SwapsOf(tc, p) IN
        /\ (teams[p] \in Teams /\ swaps # <<>>) =>
               swaps[Len(swaps)].newTeam = teams[p]
        /\ teams[p] \in Teams =>
               \A i \in 2..Len(swaps) :
                   swaps[i].previousTeam = swaps[i - 1].newTeam

LoggedOps == {"swap", "leave", "return", "recordGoal"}
RawOps == {"assign", "remove"}

\* C29 as stated: each of assign, remove, swap, leave, return and recordGoal
\* keeps the swap log consistent with the assignments, so the log is
\* consistent after any sequence of them that starts from an empty log.
C29_AsStated ==
    (lastOp.op \in LoggedOps \cup RawOps /\ LogConsistent(prev.teams, prev.changes))
        => LogConsistent(playerTeams, teamChanges)

\* C29: each of swap, leave, return and recordGoal keeps the swap log
\* consistent with the assignments, and so does an assign or remove of a
\* player who has no swap entry.
C29_SwapLogConsistency ==
    (/\ LogConsistent(prev.teams, prev.changes)
     /\ \/ lastOp.op \in LoggedOps
        \/ lastOp.op \in RawOps /\ SwapsOf(prev.changes, lastOp.player) = <<>>)
        => LogConsistent(playerTeams, teamChanges)

\* a second swap of a player was logged after the first one: a chain of two
C29_Witness ==
    /\ lastOp.op = "swap"
    /\ LogConsistent(prev.teams, prev.changes)
    /\ Len(SwapsOf(prev.changes, lastOp.player)) = 1
    /\ Len(SwapsOf(teamChanges, lastOp.player)) = 2
    /\ playerTeams[lastOp.player] \in Teams

(***************************************************************************)
(* Stats claims: results, games played and form                            *)
(***************************************************************************)
\* the counted games in which p has a team assignment
AssignedGames(p) == {i \in 1..Len(games) : HasResult(games[i], p)}

\* the counted games in which p has no team assignment and is counted through
\* a goal (as its scorer, or as the assister of a listed scorer)
GoalOnlyGames(p) ==
    {i \in 1..Len(games) :
        /\ IsSome(games[i].teamAssignments) /\ IsSome(games[i].goals)
        /\ Get(games[i].teamAssignments)[p] = NONE
        /\ \E j \in DOMAIN Get(games[i].goals) :
              LET goal == Get(games[i].goals)[j]
              IN \/ goal.scorerId = p
                 \/ goal.assisterId = p /\ goal.scorerId \in players}

\* C30: for every row, wins + losses + ties <= gamesPlayed; wins + losses +
\* ties is the number of counted games in which the player has a team
\* assignment, the rest of gamesPlayed is the number of games that counted
\* the player only through a goal or assist, and the form has
\* min(5, wins + losses + ties) results.
C30_ResultsGamesAndForm ==
    \A p \in DOMAIN playerStats :
        LET s == playerStats[p]
            results == s.wins + s.losses + s.ties
        IN /\ results <= s.gamesPlayed
           /\ results = Cardinality(AssignedGames(p))
           /\ s.gamesPlayed - results = Cardinality(GoalOnlyGames(p))
           /\ Len(s.form) = IF results < 5 THEN results ELSE 5

\* p1 has five games with a result, among them a tie, and one game counted
\* only through a goal
C30_Witness ==
    /\ "p1" \in DOMAIN playerStats
    /\ Cardinality(AssignedGames("p1")) = 5
    /\ Cardinality(GoalOnlyGames("p1")) = 1
    /\ playerStats["p1"].ties > 0
    /\ playerStats["p1"].gamesPlayed = 6
    /\ Len(playerStats["p1"].form) = 5

\* p1 has six games with a result and a form of five
C30_WitnessCapped ==
    /\ "p1" \in DOMAIN playerStats
    /\ Cardinality(AssignedGames("p1")) = 6
    /\ playerStats["p1"].gamesPlayed = 6
    /\ Len(playerStats["p1"].form) = 5

====
